---- MODULE Spec2Model ----
(***************************************************************************)
(* Rules/simulation engine of the essence-crafting simulator.               *)
(*                                                                         *)
(* The engine (simulate.ts, math.ts) is modelled over an explicit heap of  *)
(* inventory objects, so that cloning, aliasing and in-place mutation are  *)
(* visible.  A caller holds one inventory object and calls                 *)
(* simulateAttempt, simulateBatch, previewAction and maxFeasibleAttempts   *)
(* on it; after a simulation it adopts the returned inventory, as the      *)
(* store does when it commits a batch.                                     *)
(***************************************************************************)
EXTENDS Integers, Sequences, FiniteSets, TLC

(***************************************************************************)
(* Bounds of the model.                                                    *)
(***************************************************************************)
MaxQty == 3         \* amount of each stocked resource in a starting inventory
MaxExtra == 2       \* largest extraCatalyst a caller passes
MaxAttempts == 2    \* largest attempt count a caller passes to simulateBatch

(***************************************************************************)
(* Values of the host language.                                            *)
(***************************************************************************)
Undefined == "<undefined>"      \* the value undefined (a missing risk)
NoTime == 0 - 1                 \* a risk entry without timeMinutes
NotSupplied == <<>>             \* an optional random source left out
RandDen == 1000000              \* random() returns n / RandDen; 0.999999 is the largest value the dashboard passes

\* Records Record<ResourceId, number> are functions on their set of keys.
EmptyRecord == [k \in {} |-> 0]

\* record[key] ?? 0
Get(record, key) == IF key \in DOMAIN record THEN record[key] ELSE 0

Max(a, b) == IF a >= b THEN a ELSE b
Min(a, b) == IF a <= b THEN a ELSE b

(***************************************************************************)
(* math.ts                                                                 *)
(***************************************************************************)
applyDcReduction(dc, extra, perUnit, min) ==
    IF extra <= 0 THEN dc
    ELSE Max(min, dc - perUnit * extra)

\* Probabilities are exact fractions: a probability is its numerator over
\* ProbDen, so that successes / 20 and the products of two such values are
\* integers.
Sides == 20
ProbDen == Sides * Sides

\* Math.ceil, on the integers the functions are given
Ceil(x) == x

clampProbability(value) ==
    IF value < 0 THEN 0
    ELSE IF value > ProbDen THEN ProbDen
    ELSE value

\* a chance that adds the modifier to what the roll needs
chanceNormalAddsModifier(dc, modifier) ==
    LET needed == Max(1, dc + modifier)
    IN  IF needed <= 1 THEN ProbDen
        ELSE IF needed > 20 THEN 0
        ELSE clampProbability(((21 - Ceil(needed)) * ProbDen) \div 20)

\* a chance that counts the faces above what the roll needs, not from it on
chanceNormalOffByOne(dc, modifier) ==
    LET needed == Max(1, dc - modifier)
    IN  IF needed <= 1 THEN ProbDen
        ELSE IF needed > 20 THEN 0
        ELSE clampProbability(((20 - Ceil(needed)) * ProbDen) \div 20)

\* chanceNormal of engine/math.ts; lib/math.ts has the same function
chanceNormal(dc, modifier) ==
    LET needed == Max(1, dc - modifier)
    IN  IF needed <= 1 THEN ProbDen
        ELSE IF needed > 20 THEN 0
        ELSE clampProbability(((21 - Ceil(needed)) * ProbDen) \div 20)

\* an advantage that squares the chance like a disadvantage
chanceWithAdvSquared(dc, modifier) ==
    LET base == chanceNormal(dc, modifier)
    IN  clampProbability((base * base) \div ProbDen)

\* 1 - (1 - base) * (1 - base)
chanceWithAdv(dc, modifier) ==
    LET base == chanceNormal(dc, modifier)
    IN  clampProbability(
            ProbDen - (((ProbDen - base) * (ProbDen - base)) \div ProbDen))

chanceWithDis(dc, modifier) ==
    LET base == chanceNormal(dc, modifier)
    IN  clampProbability((base * base) \div ProbDen)

chanceForMode(dc, modifier, mode) ==
    IF mode = "adv" THEN chanceWithAdv(dc, modifier)
    ELSE IF mode = "dis" THEN chanceWithDis(dc, modifier)
    ELSE chanceNormal(dc, modifier)

\* a manual source that takes the face for the number of faces below it
ManualValueUnshifted(value) == Min(RandDen - 1, Max(0, (value * RandDen) \div 20))

\* createManualRandom: the value the source returns for a queued die face
ManualValue(value) == Min(RandDen - 1, Max(0, ((value - 1) * RandDen) \div 20))

\* One call of a random source: the streams are cyclic sequences of the
\* numerators n of the values n / RandDen; rng counts the calls made so far
\* on each source.  "platform" is Math.random.  The sources of manual streams
\* are the closures of createManualRandom over a queue of die faces: a call
\* shifts the queue, and calls Math.random once the queue is empty; rng then
\* counts the faces shifted.
Draw(streams, rng, source) ==
    LET vals == streams[source]
        fallback == streams.platform
    IN  IF source # "platform" /\ streams.manual
        THEN IF rng[source] < Len(vals)
             THEN [value |-> ManualValue(vals[rng[source] + 1]),
                   rng   |-> [rng EXCEPT ![source] = @ + 1]]
             ELSE [value |-> fallback[(rng.platform % Len(fallback)) + 1],
                   rng   |-> [rng EXCEPT !.platform = @ + 1]]
        ELSE [value |-> vals[(rng[source] % Len(vals)) + 1],
              rng   |-> [rng EXCEPT ![source] = @ + 1]]

\* a die that returns the scaled draw as it is
rollD20Unclamped(streams, rng, source) ==
    LET d == Draw(streams, rng, source)
    IN  [raw |-> ((d.value * 20) \div RandDen) + 1, rng |-> d.rng]

\* Math.min(20, Math.max(1, Math.floor(random() * 20) + 1))
rollD20(streams, rng, source) ==
    LET d == Draw(streams, rng, source)
        value == ((d.value * 20) \div RandDen) + 1
    IN  [raw |-> Min(20, Max(1, value)), rng |-> d.rng]

rollWithMode(mode, streams, rng, source) ==
    IF mode = "normal"
    THEN LET r == rollD20(streams, rng, source)
         IN  [raw |-> r.raw, detail |-> <<r.raw>>, rng |-> r.rng]
    ELSE LET first  == rollD20(streams, rng, source)
             second == rollD20(streams, first.rng, source)
         IN  IF mode = "adv"
             THEN [raw |-> Max(first.raw, second.raw),
                   detail |-> <<first.raw, second.raw>>, rng |-> second.rng]
             ELSE [raw |-> Min(first.raw, second.raw),
                   detail |-> <<first.raw, second.raw>>, rng |-> second.rng]

(***************************************************************************)
(* Families.  An ActionSpec is a record; its function-valued fields io and *)
(* dc are the operators ActionIo and ActionDc, selected by the action id.  *)
(* risks is the risk table in key order (Object.keys order).               *)
(***************************************************************************)
NoReduction == [defined |-> FALSE, perUnit |-> 0, minDC |-> 0, resource |-> ""]

RiskEntry(risk, dc, timeMinutes) ==
    [risk |-> risk, dc |-> dc, timeMinutes |-> timeMinutes]

NATURAL_RESOURCES == {"raw", "fine", "fused", "superior", "supreme", "rawAE"}

naturalActions ==
    << [id |-> "natural.T2.refine", tier |-> "T2", timeMinutes |-> 60,
        hasRisks |-> TRUE,
        risks |-> << RiskEntry("low", 5, 30), RiskEntry("standard", 12, 60),
                     RiskEntry("high", 20, 120) >>,
        dcKind |-> "undefined", dcNumber |-> 0,
        dcReduction |-> NoReduction],
       [id |-> "natural.T3.infuse", tier |-> "T3", timeMinutes |-> 30,
        hasRisks |-> TRUE,
        risks |-> << RiskEntry("standard", 12, 30) >>,
        dcKind |-> "undefined", dcNumber |-> 0,
        dcReduction |-> NoReduction],
       [id |-> "natural.T4.refine", tier |-> "T4", timeMinutes |-> 120,
        hasRisks |-> TRUE,
        risks |-> << RiskEntry("low", 12, 60), RiskEntry("standard", 18, 120),
                     RiskEntry("high", 34, 480) >>,
        dcKind |-> "undefined", dcNumber |-> 0,
        dcReduction |-> [defined |-> TRUE, perUnit |-> 4, minDC |-> 5,
                         resource |-> "rawAE"]],
       [id |-> "natural.T5.refine", tier |-> "T5", timeMinutes |-> 120,
        hasRisks |-> TRUE,
        risks |-> << RiskEntry("standard", 12, 60), RiskEntry("high", 18, 120) >>,
        dcKind |-> "undefined", dcNumber |-> 0,
        dcReduction |-> NoReduction] >>

ARCANE_RESOURCES == {"essenceShard", "catalystDust", "arcaneCore", "mote"}

arcaneSampleActions ==
    << [id |-> "arcane.sample.transmute", tier |-> "T3", timeMinutes |-> 45,
        hasRisks |-> TRUE,
        risks |-> << RiskEntry("standard", 14, 45), RiskEntry("risky", 18, 20) >>,
        dcKind |-> "undefined", dcNumber |-> 0,
        dcReduction |-> NoReduction],
       [id |-> "arcane.sample.focus", tier |-> "T4", timeMinutes |-> 60,
        hasRisks |-> FALSE, risks |-> << >>,
        dcKind |-> "function", dcNumber |-> 0,
        dcReduction |-> NoReduction] >>

\* Further values of the type ActionSpec, over the arcane resources: a flat
\* numeric dc with zero amounts in its io records, a risk entry without
\* timeMinutes, two specs whose DC cannot be resolved, and one that consumes
\* and produces nothing.
fixtureActions ==
    << [id |-> "fixture.flat", tier |-> "T2", timeMinutes |-> 15,
        hasRisks |-> FALSE, risks |-> << >>,
        dcKind |-> "number", dcNumber |-> 10,
        dcReduction |-> NoReduction],
       [id |-> "fixture.catalyst", tier |-> "T3", timeMinutes |-> 20,
        hasRisks |-> TRUE,
        risks |-> << RiskEntry("risky", 4, NoTime) >>,
        dcKind |-> "undefined", dcNumber |-> 0,
        dcReduction |-> [defined |-> TRUE, perUnit |-> 2, minDC |-> 6,
                         resource |-> "catalystDust"]],
       [id |-> "fixture.unresolved", tier |-> "T2", timeMinutes |-> 10,
        hasRisks |-> FALSE, risks |-> << >>,
        dcKind |-> "undefined", dcNumber |-> 0,
        dcReduction |-> NoReduction],
       [id |-> "fixture.norisks", tier |-> "T2", timeMinutes |-> 10,
        hasRisks |-> TRUE, risks |-> << >>,
        dcKind |-> "undefined", dcNumber |-> 0,
        dcReduction |-> NoReduction],
       [id |-> "fixture.free", tier |-> "T2", timeMinutes |-> 5,
        hasRisks |-> FALSE, risks |-> << >>,
        dcKind |-> "number", dcNumber |-> 15,
        dcReduction |-> NoReduction] >>

\* risk ?? fallback
ensureRisk(risk, fallback) == IF risk = Undefined THEN fallback ELSE risk

NoSalvage == [dc |-> 0, produce |-> EmptyRecord]

\* an I/O rule whose salvage gives back everything the attempt consumed
IoOfRefunding(consume, produceOnSuccess, hasSalvage, salvage) ==
    [consume |-> consume, produceOnSuccess |-> produceOnSuccess,
     hasSalvage |-> hasSalvage,
     salvage |-> [dc |-> salvage.dc,
                  produce |-> IF hasSalvage THEN consume ELSE salvage.produce]]

IoOf(consume, produceOnSuccess, hasSalvage, salvage) ==
    [consume |-> consume, produceOnSuccess |-> produceOnSuccess,
     hasSalvage |-> hasSalvage, salvage |-> salvage]

\* action.io({ risk, inputs })
ActionIo(action, risk, inputs) ==
    CASE action.id = "natural.T2.refine" ->
           LET resolved == ensureRisk(risk, "standard")
           IN  IF resolved = "low"
               THEN IoOf("raw" :> 3, "fine" :> 1, TRUE,
                         [dc |-> 8, produce |-> "raw" :> 2])
               ELSE IF resolved = "high"
               THEN IoOf("raw" :> 1, "fine" :> 1, FALSE, NoSalvage)
               ELSE IoOf("raw" :> 2, "fine" :> 1, TRUE,
                         [dc |-> 12, produce |-> "raw" :> 1])
      [] action.id = "natural.T3.infuse" ->
           IoOf(("fine" :> 2) @@ ("rawAE" :> 2), "fused" :> 1, TRUE,
                [dc |-> 10, produce |-> "fine" :> 2])
      [] action.id = "natural.T4.refine" ->
           LET resolved == ensureRisk(risk, "standard")
           IN  IF resolved = "low"
               THEN IoOf("fused" :> 3, "superior" :> 1, TRUE,
                         [dc |-> 10, produce |-> "fine" :> 5])
               ELSE IF resolved = "high"
               THEN IoOf("fused" :> 1, "superior" :> 1, TRUE,
                         [dc |-> 18, produce |-> "fine" :> 1])
               ELSE IoOf("fused" :> 2, "superior" :> 1, TRUE,
                         [dc |-> 14, produce |-> "fine" :> 3])
      [] action.id = "natural.T5.refine" ->
           LET resolved == ensureRisk(risk, "standard")
           IN  IF resolved = "high"
               THEN IoOf("superior" :> 2, "supreme" :> 1, TRUE,
                         [dc |-> 15, produce |-> "superior" :> 1])
               ELSE IoOf("superior" :> 3, "supreme" :> 1, TRUE,
                         [dc |-> 10, produce |-> "superior" :> 2])
      [] action.id = "arcane.sample.transmute" ->
           LET catalystAvailable == Get(inputs, "catalystDust")
               consumeCatalyst == IF risk = "risky" THEN 1 ELSE 2
           IN  IoOf(("essenceShard" :> 3) @@ ("catalystDust" :> consumeCatalyst),
                    "arcaneCore" :> 1, TRUE,
                    [dc |-> 13,
                     produce |-> "mote" :> (IF catalystAvailable > consumeCatalyst
                                            THEN 2 ELSE 1)])
      [] action.id = "arcane.sample.focus" ->
           IoOf("arcaneCore" :> 1, "mote" :> 3, TRUE,
                [dc |-> 15, produce |-> "catalystDust" :> 1])
      [] action.id = "fixture.flat" ->
           IoOf(("mote" :> 2) @@ ("arcaneCore" :> 0),
                ("catalystDust" :> 1) @@ ("essenceShard" :> 0), TRUE,
                [dc |-> 9, produce |-> ("mote" :> 0) @@ ("arcaneCore" :> 0)])
      [] action.id = "fixture.catalyst" ->
           IoOf("catalystDust" :> 1, "mote" :> 1, TRUE,
                [dc |-> 11, produce |-> "catalystDust" :> 1])
      [] action.id = "fixture.free" ->
           IoOf("mote" :> 0, EmptyRecord, FALSE, NoSalvage)
      [] OTHER ->
           IoOf("essenceShard" :> 1, "mote" :> 1, FALSE, NoSalvage)

\* action.dc({ risk, inputs }) of the specs whose dc is a function
ActionDc(action, risk, inputs) ==
    IF action.id = "arcane.sample.focus"
    THEN 10 + (Get(inputs, "arcaneCore") \div 2)
    ELSE 0

(***************************************************************************)
(* simulate.ts.  The heap is the sequence of inventory objects allocated   *)
(* so far; an inventory reference is an index into it.                     *)
(***************************************************************************)
\* a clone that hands back the object it was given
cloneInventoryAlias(heap, ref) ==
    [heap |-> heap, ref |-> ref]

cloneInventory(heap, ref) ==
    [heap |-> Append(heap, heap[ref]), ref |-> Len(heap) + 1]

negateRecord(record) ==
    [key \in {k \in DOMAIN record : record[k] # 0} |-> 0 - record[key]]

\* a merge that overwrites an entry instead of adding to it
mergeDeltaOverwrite(target, delta) ==
    LET merged == {resource \in DOMAIN delta : delta[resource] # 0}
    IN  [resource \in DOMAIN target \cup merged |->
            IF resource \in merged THEN delta[resource] ELSE target[resource]]

\* a merge that does not skip the amounts that are 0
mergeDeltaKeepZero(target, delta) ==
    [resource \in DOMAIN target \cup DOMAIN delta |->
        Get(target, resource) + Get(delta, resource)]

mergeDelta(target, delta) ==
    LET merged == {resource \in DOMAIN delta : delta[resource] # 0}
    IN  [resource \in DOMAIN target \cup merged |->
            IF resource \in merged
            THEN Get(target, resource) + delta[resource]
            ELSE target[resource]]

\* an inventory write that applies what an attempt consumed and drops what it made
applyToInventoryConsumesOnly(heap, ref, delta) ==
    LET inventory == heap[ref]
        written == {resource \in DOMAIN delta : delta[resource] < 0}
    IN  [heap EXCEPT ![ref] =
            [resource \in DOMAIN inventory |->
                IF resource \in written
                THEN Max(0, inventory[resource] + delta[resource])
                ELSE inventory[resource]]]

\* writes into the inventory object itself and returns it
applyToInventory(heap, ref, delta) ==
    LET inventory == heap[ref]
        written == {resource \in DOMAIN delta : delta[resource] # 0}
    IN  [heap EXCEPT ![ref] =
            [resource \in DOMAIN inventory \cup written |->
                IF resource \in written
                THEN Max(0, Get(inventory, resource) + delta[resource])
                ELSE inventory[resource]]]

\* a feasibility test that lets an attempt through one unit short
isFeasibleOffByOne(inventory, consumption) ==
    \A resource \in DOMAIN consumption :
        \/ consumption[resource] = 0
        \/ Get(inventory, resource) + 1 >= consumption[resource]

\* a feasibility test that looks only at the resources the inventory lists
isFeasibleHeldOnly(inventory, consumption) ==
    \A resource \in DOMAIN consumption \cap DOMAIN inventory :
        \/ consumption[resource] = 0
        \/ inventory[resource] >= consumption[resource]

isFeasible(inventory, consumption) ==
    \A resource \in DOMAIN consumption :
        \/ consumption[resource] = 0
        \/ Get(inventory, resource) >= consumption[resource]

\* action.risks?.[risk], as a set of indices into the risk table
RiskIndex(action, risk) ==
    {i \in 1..Len(action.risks) : action.risks[i].risk = risk}

HasRiskEntry(action, risk) ==
    action.hasRisks /\ risk # Undefined /\ RiskIndex(action, risk) # {}

resolveRisk(action, risk) ==
    IF ~action.hasRisks THEN risk
    ELSE IF HasRiskEntry(action, risk) THEN risk
    ELSE IF Len(action.risks) > 0 THEN action.risks[1].risk
    ELSE Undefined

DcError(action) == <<"Unable to resolve DC for action", action.id>>

\* a resolution that falls back to DC 10 where the code throws
resolveDcAndTimeDefault(action, risk, inputs) ==
    IF HasRiskEntry(action, risk)
    THEN LET entry == action.risks[CHOOSE i \in RiskIndex(action, risk) : TRUE]
         IN  [threw |-> FALSE, baseDc |-> entry.dc,
              timeMinutes |-> IF entry.timeMinutes = NoTime
                              THEN action.timeMinutes ELSE entry.timeMinutes]
    ELSE IF action.dcKind = "function"
    THEN [threw |-> FALSE, baseDc |-> ActionDc(action, risk, inputs),
          timeMinutes |-> action.timeMinutes]
    ELSE IF action.dcKind = "number"
    THEN [threw |-> FALSE, baseDc |-> action.dcNumber,
          timeMinutes |-> action.timeMinutes]
    ELSE [threw |-> FALSE, baseDc |-> 10, timeMinutes |-> action.timeMinutes]

resolveDcAndTime(action, risk, inputs) ==
    IF HasRiskEntry(action, risk)
    THEN LET entry == action.risks[CHOOSE i \in RiskIndex(action, risk) : TRUE]
         IN  [threw |-> FALSE, baseDc |-> entry.dc,
              timeMinutes |-> IF entry.timeMinutes = NoTime
                              THEN action.timeMinutes ELSE entry.timeMinutes]
    ELSE IF action.dcKind = "function"
    THEN [threw |-> FALSE, baseDc |-> ActionDc(action, risk, inputs),
          timeMinutes |-> action.timeMinutes]
    ELSE IF action.dcKind = "number"
    THEN [threw |-> FALSE, baseDc |-> action.dcNumber,
          timeMinutes |-> action.timeMinutes]
    ELSE [threw |-> TRUE, baseDc |-> 0, timeMinutes |-> 0]

applyReduction(action, baseDc, extraCatalyst) ==
    IF ~action.dcReduction.defined THEN baseDc
    ELSE applyDcReduction(baseDc, extraCatalyst,
                          action.dcReduction.perUnit, action.dcReduction.minDC)

\* a consumption in which the extra catalyst lowers the DC without being spent
withExtraCatalystConsumptionFree(action, consume, extraCatalyst) ==
    consume

withExtraCatalystConsumption(action, consume, extraCatalyst) ==
    IF extraCatalyst > 0 /\ action.dcReduction.defined
    THEN LET key == action.dcReduction.resource
         IN  [resource \in DOMAIN consume \cup {key} |->
                 IF resource = key
                 THEN Get(consume, key) + extraCatalyst
                 ELSE consume[resource]]
    ELSE consume

NoCheck ==
    [defined |-> FALSE, raw |-> 0, detail |-> << >>, modifier |-> 0,
     total |-> 0, dc |-> 0, mode |-> "normal", success |-> FALSE]

NoSalvageResult ==
    [defined |-> FALSE, attempted |-> FALSE, raw |-> 0, modifier |-> 0,
     total |-> 0, dc |-> 0, success |-> FALSE]

Thrown(heap, rng, action) ==
    [threw |-> TRUE, error |-> DcError(action), heap |-> heap, rng |-> rng]

\* the context was given this source: a manual source is a function even
\* when its queue is empty
Supplied(streams, source) == streams.manual \/ streams[source] # NotSupplied

\* random ?? Math.random
MainSource(ctx) ==
    IF Supplied(ctx.streams, "random") THEN "random" ELSE "platform"

\* a salvage roll that always shares the source of the main check
SalvageSourceShared(ctx) ==
    MainSource(ctx)

\* salvageRandom ?? random ?? Math.random
SalvageSource(ctx) ==
    IF Supplied(ctx.streams, "salvageRandom") THEN "salvageRandom"
    ELSE IF Supplied(ctx.streams, "random") THEN "random"
    ELSE "platform"

\* a salvage roll that follows the roll mode of the main check
SalvageRollWithMode(ctx, rng) ==
    LET rolled == rollWithMode(ctx.mode, ctx.streams, rng, SalvageSource(ctx))
    IN  [raw |-> rolled.raw, rng |-> rolled.rng]

\* rollD20(salvageRandom ?? random ?? Math.random)
SalvageRoll(ctx, rng) ==
    rollD20(ctx.streams, rng, SalvageSource(ctx))

simulateAttempt(heap, ctx, rng) ==
    LET action == ctx.action
        cloned == cloneInventory(heap, ctx.inventory)
        currentInventory == cloned.ref
        inputs == cloned.heap[currentInventory]
        resolvedRisk == resolveRisk(action, ctx.risk)
        dcTime == resolveDcAndTime(action, resolvedRisk, inputs)
        actualDc == applyReduction(action, dcTime.baseDc, ctx.extraCatalyst)
        actionIO == ActionIo(action, resolvedRisk, inputs)
        consumption ==
            withExtraCatalystConsumption(action, actionIO.consume, ctx.extraCatalyst)
        checkRoll == rollWithMode(ctx.mode, ctx.streams, rng, MainSource(ctx))
        total == checkRoll.raw + ctx.modifier
        success == total >= actualDc
        producedOnSuccess ==
            IF success THEN actionIO.produceOnSuccess ELSE EmptyRecord
        delta1 == mergeDelta(mergeDelta(EmptyRecord, negateRecord(consumption)),
                             producedOnSuccess)
        check == [defined |-> TRUE, raw |-> checkRoll.raw,
                  detail |-> checkRoll.detail, modifier |-> ctx.modifier,
                  total |-> total, dc |-> actualDc, mode |-> ctx.mode,
                  success |-> success]
        salvaging == ~success /\ actionIO.hasSalvage
        roll == SalvageRoll(ctx, checkRoll.rng)
        salvageTotal == roll.raw + ctx.modifier
        salvageSuccess == salvageTotal >= actionIO.salvage.dc
        salvage ==
            IF salvaging
            THEN [defined |-> TRUE, attempted |-> TRUE, raw |-> roll.raw,
                  modifier |-> ctx.modifier, total |-> salvageTotal,
                  dc |-> actionIO.salvage.dc, success |-> salvageSuccess]
            ELSE [NoSalvageResult EXCEPT !.defined = TRUE,
                                         !.modifier = ctx.modifier]
        delta ==
            IF salvaging /\ salvageSuccess
            THEN mergeDelta(delta1, actionIO.salvage.produce)
            ELSE delta1
        salvageDelta ==
            IF salvaging /\ salvageSuccess
            THEN mergeDelta(EmptyRecord, actionIO.salvage.produce)
            ELSE EmptyRecord
        final == cloneInventory(cloned.heap, currentInventory)
    IN  IF dcTime.threw THEN Thrown(cloned.heap, rng, action)
        ELSE IF ~isFeasible(inputs, consumption)
        THEN [threw |-> FALSE, error |-> << >>, heap |-> cloned.heap, rng |-> rng,
              result |-> [feasible |-> FALSE, reason |-> "insufficient-resources",
                          inventory |-> currentInventory,
                          delta |-> EmptyRecord, consumed |-> EmptyRecord,
                          produced |-> EmptyRecord,
                          salvageProduced |-> EmptyRecord,
                          check |-> NoCheck, salvage |-> NoSalvageResult,
                          timeMinutes |-> dcTime.timeMinutes]]
        ELSE [threw |-> FALSE, error |-> << >>,
              heap |-> applyToInventory(final.heap, final.ref, delta),
              rng |-> IF salvaging THEN roll.rng ELSE checkRoll.rng,
              result |-> [feasible |-> TRUE, reason |-> Undefined,
                          inventory |-> final.ref,
                          delta |-> delta, consumed |-> consumption,
                          produced |-> producedOnSuccess,
                          salvageProduced |-> salvageDelta,
                          check |-> check, salvage |-> salvage,
                          timeMinutes |-> dcTime.timeMinutes]]

BatchReturn(heap, inventory, results, totalMinutes, totalDelta, rng, evaluated) ==
    [threw |-> FALSE, error |-> << >>, heap |-> heap, rng |-> rng,
     evaluated |-> evaluated,
     batch |-> [attempts |-> results,
                summary |-> [runs |-> Len(results),
                             totalMinutes |-> totalMinutes,
                             delta |-> totalDelta],
                finalInventory |-> inventory]]

RECURSIVE BatchLoop(_, _, _, _, _, _, _, _, _, _)

\* a loop body that resolves every attempt against the inventory the batch began with
BatchStepUnthreaded(r, ctx, attempts, i, inventory, results, totalMinutes, totalDelta, evaluated) ==
    IF r.threw
    THEN [threw |-> TRUE, error |-> r.error, heap |-> r.heap,
          rng |-> r.rng, evaluated |-> evaluated + 1]
    ELSE IF ~r.result.feasible
    THEN BatchReturn(r.heap, inventory, results, totalMinutes, totalDelta,
                     r.rng, evaluated + 1)
    ELSE BatchLoop(r.heap, ctx, attempts, i + 1, inventory,
                   Append(results, r.result),
                   totalMinutes + r.result.timeMinutes,
                   mergeDelta(totalDelta, r.result.delta),
                   r.rng, evaluated + 1)

\* a loop body that lists the infeasible attempt and goes on
BatchStepKeepsInfeasible(r, ctx, attempts, i, inventory, results, totalMinutes, totalDelta, evaluated) ==
    IF r.threw
    THEN [threw |-> TRUE, error |-> r.error, heap |-> r.heap,
          rng |-> r.rng, evaluated |-> evaluated + 1]
    ELSE BatchLoop(r.heap, ctx, attempts, i + 1, r.result.inventory,
                   Append(results, r.result),
                   totalMinutes + r.result.timeMinutes,
                   mergeDelta(totalDelta, r.result.delta),
                   r.rng, evaluated + 1)

\* a loop body in which the attempt that turns out infeasible has already
\* rolled its main check
BatchStepRollsInfeasible(r, ctx, attempts, i, inventory, results, totalMinutes, totalDelta, evaluated) ==
    IF r.threw
    THEN [threw |-> TRUE, error |-> r.error, heap |-> r.heap,
          rng |-> r.rng, evaluated |-> evaluated + 1]
    ELSE IF ~r.result.feasible
    THEN BatchReturn(r.heap, inventory, results, totalMinutes, totalDelta,
                     rollWithMode(ctx.mode, ctx.streams, r.rng, MainSource(ctx)).rng,
                     evaluated + 1)
    ELSE BatchLoop(r.heap, ctx, attempts, i + 1, r.result.inventory,
                   Append(results, r.result),
                   totalMinutes + r.result.timeMinutes,
                   mergeDelta(totalDelta, r.result.delta),
                   r.rng, evaluated + 1)

\* The body of the loop of simulateBatch, given the result r of the call of
\* simulateAttempt in iteration i.
BatchStep(r, ctx, attempts, i, inventory, results, totalMinutes, totalDelta, evaluated) ==
    IF r.threw
    THEN [threw |-> TRUE, error |-> r.error, heap |-> r.heap,
          rng |-> r.rng, evaluated |-> evaluated + 1]
    ELSE IF ~r.result.feasible
    THEN BatchReturn(r.heap, inventory, results, totalMinutes, totalDelta,
                     r.rng, evaluated + 1)
    ELSE BatchLoop(r.heap, ctx, attempts, i + 1, r.result.inventory,
                   Append(results, r.result),
                   totalMinutes + r.result.timeMinutes,
                   mergeDelta(totalDelta, r.result.delta),
                   r.rng, evaluated + 1)

\* The loop of simulateBatch from iteration i on; evaluated counts the calls
\* of simulateAttempt.
BatchLoop(heap, ctx, attempts, i, inventory, results, totalMinutes, totalDelta, rng, evaluated) ==
    IF i >= attempts
    THEN BatchReturn(heap, inventory, results, totalMinutes, totalDelta, rng,
                     evaluated)
    ELSE BatchStep(simulateAttempt(heap, [ctx EXCEPT !.inventory = inventory], rng),
                   ctx, attempts, i, inventory, results, totalMinutes,
                   totalDelta, evaluated)

simulateBatch(heap, ctx, attempts, rng) ==
    LET cloned == cloneInventory(heap, ctx.inventory)
    IN  BatchLoop(cloned.heap, ctx, attempts, 0, cloned.ref, << >>, 0,
                  EmptyRecord, rng, 0)

\* a preview that leaves the extra catalyst out of the consumption it shows
previewActionBaseOnly(heap, action, inventory, risk, extraCatalyst) ==
    LET resolvedRisk == resolveRisk(action, risk)
        dcTime == resolveDcAndTime(action, resolvedRisk, heap[inventory])
        io == ActionIo(action, resolvedRisk, heap[inventory])
    IN  IF dcTime.threw
        THEN [threw |-> TRUE, error |-> DcError(action), heap |-> heap]
        ELSE [threw |-> FALSE, error |-> << >>, heap |-> heap,
              preview |->
                [dc |-> applyReduction(action, dcTime.baseDc, extraCatalyst),
                 timeMinutes |-> dcTime.timeMinutes,
                 consumption |-> io.consume,
                 io |-> io]]

previewAction(heap, action, inventory, risk, extraCatalyst) ==
    LET resolvedRisk == resolveRisk(action, risk)
        dcTime == resolveDcAndTime(action, resolvedRisk, heap[inventory])
        io == ActionIo(action, resolvedRisk, heap[inventory])
    IN  IF dcTime.threw
        THEN [threw |-> TRUE, error |-> DcError(action), heap |-> heap]
        ELSE [threw |-> FALSE, error |-> << >>, heap |-> heap,
              preview |->
                [dc |-> applyReduction(action, dcTime.baseDc, extraCatalyst),
                 timeMinutes |-> dcTime.timeMinutes,
                 consumption |->
                    withExtraCatalystConsumption(action, io.consume, extraCatalyst),
                 io |-> io]]

RECURSIVE MinOf(_)
MinOf(S) ==
    LET x == CHOOSE y \in S : TRUE
    IN  IF S = {x} THEN x ELSE Min(x, MinOf(S \ {x}))

\* a count that leaves the extra catalyst out of the per-attempt consumption
maxFeasibleAttemptsBaseOnly(heap, action, inventory, risk, extraCatalyst) ==
    LET resolvedRisk == resolveRisk(action, risk)
        consumption == ActionIo(action, resolvedRisk, heap[inventory]).consume
        limited == {resource \in DOMAIN consumption : consumption[resource] > 0}
        limits == {Get(heap[inventory], resource) \div consumption[resource] :
                      resource \in limited}
    IN  IF limited = {}
        THEN [infinite |-> TRUE, value |-> 0]
        ELSE [infinite |-> FALSE, value |-> Max(0, MinOf(limits))]

\* a count that rounds each quotient up
maxFeasibleAttemptsRoundsUp(heap, action, inventory, risk, extraCatalyst) ==
    LET resolvedRisk == resolveRisk(action, risk)
        actionIO == ActionIo(action, resolvedRisk, heap[inventory])
        consumption ==
            withExtraCatalystConsumption(action, actionIO.consume, extraCatalyst)
        limited == {resource \in DOMAIN consumption : consumption[resource] > 0}
        limits == {(Get(heap[inventory], resource) + consumption[resource] - 1)
                        \div consumption[resource] : resource \in limited}
    IN  IF limited = {}
        THEN [infinite |-> TRUE, value |-> 0]
        ELSE [infinite |-> FALSE, value |-> Max(0, MinOf(limits))]

\* Number.POSITIVE_INFINITY is the record with infinite set
maxFeasibleAttempts(heap, action, inventory, risk, extraCatalyst) ==
    LET resolvedRisk == resolveRisk(action, risk)
        actionIO == ActionIo(action, resolvedRisk, heap[inventory])
        consumption ==
            withExtraCatalystConsumption(action, actionIO.consume, extraCatalyst)
        limited == {resource \in DOMAIN consumption : consumption[resource] > 0}
        limits == {Get(heap[inventory], resource) \div consumption[resource] :
                      resource \in limited}
    IN  IF limited = {}
        THEN [infinite |-> TRUE, value |-> 0]
        ELSE [infinite |-> FALSE, value |-> Max(0, MinOf(limits))]

(***************************************************************************)
(* The caller.  It calls the engine on the inventory it holds, and then    *)
(* either adopts the inventory the simulation returned (as the store does  *)
(* when it commits a batch) or drops the result.                           *)
(***************************************************************************)
VARIABLES
    family,     \* id of the active family
    inv,        \* the inventory the caller holds
    call,       \* the pending engine call and its arguments
    ret,        \* what that call returned or threw
    heap,       \* the inventory objects after that call; heap[CallerRef] is
                \* the object the caller passed in
    probe,      \* a pure function of math.ts and the arguments it is given
    answer,     \* what that function returned
    store,      \* the rest of the store's state: snapshot, settings, histories
    app         \* the inventory card of NaturalEssenceCraftingApp

engineVars == <<family, inv, call, ret, heap>>
mathVars == <<probe, answer>>
storeVars == <<store, app>>
vars == <<family, inv, call, ret, heap, probe, answer, store, app>>

CallerRef == 1

FamilyIds == {"natural", "arcane-sample", "fixture"}

ActionsOf(id) ==
    IF id = "natural" THEN naturalActions
    ELSE IF id = "arcane-sample" THEN arcaneSampleActions
    ELSE fixtureActions

ResourcesOf(id) == IF id = "natural" THEN NATURAL_RESOURCES ELSE ARCANE_RESOURCES

\* The risks a caller asks for: none, the family's, and one it does not know.
RisksOf(id) ==
    IF id = "natural" THEN {Undefined, "low", "standard", "high"}
    ELSE IF id = "arcane-sample" THEN {Undefined, "standard", "risky", "low"}
    ELSE {Undefined, "risky"}

\* Starting inventories: MaxQty of each stocked resource, MaxExtra of the
\* catalyst.  A dense inventory has an entry for every resource of the family,
\* a sparse one only for the stocked resources.
Stock(stocked, catalyst) ==
    [resource \in stocked \cup catalyst |->
        IF resource \in stocked THEN MaxQty ELSE MaxExtra]

Dense(id, stock) == [resource \in ResourcesOf(id) |-> Get(stock, resource)]

StartInventories(id) ==
    IF id = "natural"
    THEN {Stock({"raw"}, {}), Dense(id, Stock({"fused"}, {"rawAE"})),
          Stock({"superior"}, {})}
    ELSE IF id = "arcane-sample"
    THEN {Dense(id, Stock({"essenceShard", "catalystDust"}, {})),
          Stock({"arcaneCore"}, {})}
    ELSE {Dense(id, Stock({"mote"}, {"catalystDust"})),
          Stock({"essenceShard"}, {})}

Modifiers == {0, 8}
Modes == {"normal", "adv", "dis"}

\* the value of random() that rolls a given face of the d20
RollFor(face) == ((face - 1) * RandDen) \div 20

LowRoll == RollFor(1)
MidRoll == RollFor(11)
HighRoll == RollFor(20)

\* the sources of the dashboard's manual resolution over queues of die faces
\* long enough for the largest batch
ManualStreams ==
    [random |-> <<1, 20, 11, 1, 20, 11, 1, 20>>,
     salvageRandom |-> <<20, 1, 11, 20>>, manual |-> TRUE,
     platform |-> <<LowRoll, HighRoll, MidRoll>>]

\* random, salvageRandom and what Math.random returns; each of the first two
\* may be left out
Streams ==
    {[random |-> r, salvageRandom |-> s, manual |-> FALSE,
      platform |-> <<LowRoll, HighRoll, MidRoll>>] :
        r \in {<<LowRoll, HighRoll>>, <<MidRoll>>, NotSupplied},
        s \in {<<HighRoll, LowRoll>>, NotSupplied}}
    \cup {ManualStreams}

\* the extra catalyst a caller offers: none, or as much as a stocked inventory holds
ExtraCatalysts == {0, MaxExtra}

\* the attempts a caller asks of a batch: none, or the most
BatchSizes == {0, MaxAttempts}

NoDraws == [random |-> 0, salvageRandom |-> 0, platform |-> 0]

NoCall == [op |-> "none"]
NoRet == [threw |-> FALSE]
NoProbe == [fn |-> "none"]
NoAnswer == [returned |-> FALSE]
NoStore == [mounted |-> FALSE]
NoApp == [mounted |-> FALSE]

Init ==
    /\ family \in FamilyIds
    /\ inv \in StartInventories(family)
    /\ call = NoCall
    /\ ret = NoRet
    /\ heap = <<inv>>
    /\ probe = NoProbe
    /\ answer = NoAnswer
    /\ store = NoStore
    /\ app = NoApp

Context(action, risk, extraCatalyst, modifier, mode, streams) ==
    [action |-> action, inventory |-> CallerRef, modifier |-> modifier,
     mode |-> mode, risk |-> risk, extraCatalyst |-> extraCatalyst,
     streams |-> streams]

Returned(r) == [x \in DOMAIN r \ {"heap"} |-> r[x]]

SimulateAttemptCall ==
    /\ call = NoCall
    /\ \E i \in 1..Len(ActionsOf(family)), risk \in RisksOf(family),
          extraCatalyst \in ExtraCatalysts, modifier \in Modifiers, mode \in Modes,
          streams \in Streams :
        LET ctx == Context(ActionsOf(family)[i], risk, extraCatalyst, modifier,
                           mode, streams)
            r == simulateAttempt(<<inv>>, ctx, NoDraws)
        IN  /\ call' = [op |-> "simulateAttempt", ctx |-> ctx]
            /\ heap' = r.heap
            /\ ret' = Returned(r)
    /\ UNCHANGED <<family, inv, mathVars, storeVars>>

SimulateBatchCall ==
    /\ call = NoCall
    /\ \E i \in 1..Len(ActionsOf(family)), risk \in RisksOf(family),
          extraCatalyst \in ExtraCatalysts, modifier \in Modifiers, mode \in Modes,
          streams \in Streams, attempts \in BatchSizes :
        LET ctx == Context(ActionsOf(family)[i], risk, extraCatalyst, modifier,
                           mode, streams)
            r == simulateBatch(<<inv>>, ctx, attempts, NoDraws)
        IN  /\ call' = [op |-> "simulateBatch", ctx |-> ctx, attempts |-> attempts]
            /\ heap' = r.heap
            /\ ret' = Returned(r)
    /\ UNCHANGED <<family, inv, mathVars, storeVars>>

PreviewActionCall ==
    /\ call = NoCall
    /\ \E i \in 1..Len(ActionsOf(family)), risk \in RisksOf(family),
          extraCatalyst \in ExtraCatalysts :
        LET action == ActionsOf(family)[i]
            r == previewAction(<<inv>>, action, CallerRef, risk, extraCatalyst)
        IN  /\ call' = [op |-> "previewAction", action |-> action, risk |-> risk,
                        extraCatalyst |-> extraCatalyst]
            /\ heap' = r.heap
            /\ ret' = Returned(r)
    /\ UNCHANGED <<family, inv, mathVars, storeVars>>

MaxFeasibleAttemptsCall ==
    /\ call = NoCall
    /\ \E i \in 1..Len(ActionsOf(family)), risk \in RisksOf(family),
          extraCatalyst \in ExtraCatalysts :
        LET action == ActionsOf(family)[i]
        IN  /\ call' = [op |-> "maxFeasibleAttempts", action |-> action,
                        risk |-> risk, extraCatalyst |-> extraCatalyst]
            /\ heap' = <<inv>>
            /\ ret' = [threw |-> FALSE,
                       max |-> maxFeasibleAttempts(<<inv>>, action, CallerRef,
                                                   risk, extraCatalyst)]
    /\ UNCHANGED <<family, inv, mathVars, storeVars>>

\* the inventory a completed simulation hands back
ReturnedInventory ==
    IF call.op = "simulateAttempt" THEN heap[ret.result.inventory]
    ELSE heap[ret.batch.finalInventory]

AdoptResult ==
    /\ call.op \in {"simulateAttempt", "simulateBatch"}
    /\ ~ret.threw
    /\ inv' = ReturnedInventory
    /\ call' = NoCall
    /\ ret' = NoRet
    /\ heap' = <<inv'>>
    /\ UNCHANGED <<family, mathVars, storeVars>>

DropResult ==
    /\ call # NoCall
    /\ call' = NoCall
    /\ ret' = NoRet
    /\ heap' = <<inv>>
    /\ UNCHANGED <<family, inv, mathVars, storeVars>>

Next ==
    \/ SimulateAttemptCall
    \/ SimulateBatchCall
    \/ PreviewActionCall
    \/ MaxFeasibleAttemptsCall
    \/ AdoptResult
    \/ DropResult

Spec == Init /\ [][Next]_vars

(***************************************************************************)
(* lib/math.ts and lib/rules.ts: the odds the tier panels show.            *)
(***************************************************************************)
chanceWithAdvMode(dc, modifier, mode) ==
    LET base == chanceNormal(dc, modifier)
    IN  IF mode = "advantage"
        THEN clampProbability(
                ProbDen - (((ProbDen - base) * (ProbDen - base)) \div ProbDen))
        ELSE IF mode = "disadvantage"
        THEN clampProbability((base * base) \div ProbDen)
        ELSE base

MIN_DC == 5

NoSalvageRule == [defined |-> FALSE, dc |-> 0]
SalvageRule(dc) == [defined |-> TRUE, dc |-> dc]

\* TIER_RULES[tier].risks: the dc and the salvage dc of each supported risk
TIER_RULES(tier) ==
    CASE tier = "T2" ->
           ("low" :> [dc |-> 5, salvage |-> SalvageRule(8)])
           @@ ("standard" :> [dc |-> 12, salvage |-> SalvageRule(12)])
           @@ ("high" :> [dc |-> 20, salvage |-> NoSalvageRule])
      [] tier = "T3" ->
           ("standard" :> [dc |-> 12, salvage |-> SalvageRule(10)])
      [] tier = "T4" ->
           ("low" :> [dc |-> 12, salvage |-> SalvageRule(10)])
           @@ ("standard" :> [dc |-> 18, salvage |-> SalvageRule(14)])
           @@ ("high" :> [dc |-> 34, salvage |-> SalvageRule(18)])
      [] OTHER ->
           ("standard" :> [dc |-> 12, salvage |-> SalvageRule(10)])
           @@ ("high" :> [dc |-> 18, salvage |-> SalvageRule(15)])

\* getRiskRule throws when the tier does not support the risk
Supported(tier, risk) == risk \in DOMAIN TIER_RULES(tier)

getRiskRule(tier, risk) == TIER_RULES(tier)[risk]

\* Math.ceil(a / b) for a >= 0 and b > 0
CeilDiv(a, b) == (a + b - 1) \div b

computeDc(tier, risk, extraRawAE) ==
    LET riskRule == getRiskRule(tier, risk)
        maxReduction == Max(0, riskRule.dc - MIN_DC)
        maxExtraNeeded == CeilDiv(maxReduction, 4)
        usedExtra == Min(extraRawAE, maxExtraNeeded)
    IN  IF tier # "T4" THEN [dc |-> riskRule.dc, wastedExtra |-> 0]
        ELSE [dc |-> Max(MIN_DC, riskRule.dc - usedExtra * 4),
              wastedExtra |-> Max(0, extraRawAE - usedExtra)]

\* a profile whose salvage odds follow the mode of the main check
computeSuccessProfileModal(tier, risk, extraRawAE, modifier, advantage) ==
    LET dc == computeDc(tier, risk, extraRawAE).dc
        riskRule == getRiskRule(tier, risk)
    IN  [dc |-> dc,
         successChance |-> chanceWithAdvMode(dc, modifier, advantage),
         hasSalvage |-> riskRule.salvage.defined,
         salvageDc |-> riskRule.salvage.dc,
         salvageChance |->
            IF riskRule.salvage.defined
            THEN chanceWithAdvMode(riskRule.salvage.dc, modifier, advantage)
            ELSE 0]

\* salvageDc and salvageChance are undefined where hasSalvage is FALSE
computeSuccessProfile(tier, risk, extraRawAE, modifier, advantage) ==
    LET dc == computeDc(tier, risk, extraRawAE).dc
        riskRule == getRiskRule(tier, risk)
    IN  [dc |-> dc,
         successChance |-> chanceWithAdvMode(dc, modifier, advantage),
         hasSalvage |-> riskRule.salvage.defined,
         salvageDc |-> riskRule.salvage.dc,
         salvageChance |->
            IF riskRule.salvage.defined
            THEN chanceNormal(riskRule.salvage.dc, modifier)
            ELSE 0]

(***************************************************************************)
(* The pure functions of math.ts and lib/rules.ts, applied to arguments    *)
(* from bounded sets.                                                      *)
(***************************************************************************)
MaxDc == 8          \* largest dc and minimum dc given to applyDcReduction
MaxPerUnit == 3     \* largest reduction per unit
MaxChanceDc == 24   \* largest dc given to the chance functions
MaxModifier == 6    \* largest modifier, of either sign
MaxExtraRawAE == 8  \* largest extraRawAE given to computeSuccessProfile

DcReductionProbes ==
    {[fn |-> "applyDcReduction", dc |-> dc, extra |-> extra,
      perUnit |-> perUnit, min |-> min] :
        dc \in 0..MaxDc, extra \in 0..MaxExtra,
        perUnit \in (0 - 1)..MaxPerUnit, min \in 0..MaxDc}

ChanceDcs == (0 - MaxModifier)..MaxChanceDc
ChanceModifiers == (0 - MaxModifier)..MaxModifier

ChanceProbes ==
    {[fn |-> "chanceForMode", dc |-> dc, modifier |-> modifier, mode |-> mode] :
        dc \in ChanceDcs, modifier \in ChanceModifiers, mode \in Modes}

Tiers == {"T2", "T3", "T4", "T5"}
RiskLevels == {"low", "standard", "high"}
AdvantageModes == {"normal", "advantage", "disadvantage"}

ProfileProbes ==
    {[fn |-> "computeSuccessProfile", tier |-> tier, risk |-> risk,
      extraRawAE |-> extra, modifier |-> modifier, advantage |-> advantage] :
        tier \in Tiers, risk \in RiskLevels, extra \in 0..MaxExtraRawAE,
        modifier \in ChanceModifiers, advantage \in AdvantageModes}

InitMath ==
    /\ family = "natural"
    /\ inv = EmptyRecord
    /\ call = NoCall
    /\ ret = NoRet
    /\ heap = <<inv>>
    /\ probe \in DcReductionProbes \cup ChanceProbes \cup ProfileProbes
    /\ answer = NoAnswer
    /\ store = NoStore
    /\ app = NoApp

ApplyDcReductionCall ==
    /\ probe.fn = "applyDcReduction"
    /\ answer = NoAnswer
    /\ answer' = [returned |-> TRUE,
                  value |-> applyDcReduction(probe.dc, probe.extra,
                                             probe.perUnit, probe.min)]
    /\ UNCHANGED <<engineVars, probe, storeVars>>

ChanceForModeCall ==
    /\ probe.fn = "chanceForMode"
    /\ answer = NoAnswer
    /\ answer' = [returned |-> TRUE,
                  value |-> chanceForMode(probe.dc, probe.modifier, probe.mode)]
    /\ UNCHANGED <<engineVars, probe, storeVars>>

ComputeSuccessProfileCall ==
    /\ probe.fn = "computeSuccessProfile"
    /\ answer = NoAnswer
    /\ answer' =
          IF Supported(probe.tier, probe.risk)
          THEN [returned |-> TRUE, threw |-> FALSE,
                profile |-> computeSuccessProfile(probe.tier, probe.risk,
                                                  probe.extraRawAE,
                                                  probe.modifier, probe.advantage)]
          ELSE [returned |-> TRUE, threw |-> TRUE]
    /\ UNCHANGED <<engineVars, probe, storeVars>>

NextMath ==
    \/ ApplyDcReductionCall
    \/ ChanceForModeCall
    \/ ComputeSuccessProfileCall

SpecMath == InitMath /\ [][NextMath]_vars

(***************************************************************************)
(* app/store/craftingStore.ts and features/crafting/CraftingDashboard.tsx: *)
(* the store of the dashboard and the handler that runs a batch.  inv is   *)
(* the store's inventory; store holds the snapshot, the settings, the log  *)
(* and the roll histories.  call and ret keep the last run of the handler. *)
(***************************************************************************)
MAX_ROLL_HISTORY == 12
MAX_LOG_ENTRIES == 120

\* a slice that keeps the last n entries
SliceLast(array, n) == SubSeq(array, Max(1, Len(array) - n + 1), Len(array))

\* array.slice(0, n)
Slice(array, n) == SubSeq(array, 1, Min(n, Len(array)))

\* prevInventory: null, or a copy of an inventory
NoSnapshot == [present |-> FALSE]
Snapshot(inventory) == [present |-> TRUE, inventory |-> inventory]

\* the log entries after which a session of the dashboard runs no further batch
MaxLogged == 1

\* the faces a user queues for manual resolution, for the check and for the
\* salvage roll; parseManualQueue keeps the numbers from 1 to 20
ManualQueues ==
    {[check |-> << >>, salvage |-> << >>],
     [check |-> <<1>>, salvage |-> <<20, 1>>],
     [check |-> <<20, 1, 11>>, salvage |-> << >>]}

\* what Math.random returns during a run of the dashboard
PlatformRolls == <<LowRoll, HighRoll, MidRoll>>

DashboardSettings ==
    {[rollResolution |-> resolution, rollMode |-> mode, modifier |-> modifier,
      manualCheckQueue |-> queues.check, manualSalvageQueue |-> queues.salvage] :
        resolution \in {"auto", "manual"}, mode \in Modes, modifier \in Modifiers,
        queues \in ManualQueues}

\* createDefaultState, with the settings and the inventory a session has reached
InitDashboard ==
    /\ family = "natural"
    /\ inv \in StartInventories(family)
    /\ call = NoCall
    /\ ret = NoRet
    /\ heap = <<inv>>
    /\ probe = NoProbe
    /\ answer = NoAnswer
    /\ \E settings \in DashboardSettings :
          store = [mounted |-> TRUE, prevInventory |-> NoSnapshot,
                   settings |-> settings, log |-> << >>,
                   rolls |-> [checks |-> << >>, salvages |-> << >>],
                   sessionMinutes |-> 0]
    /\ app = NoApp

\* the queue a manual source leaves behind after shifting `taken` faces
Unconsumed(queue, taken) == SubSeq(queue, taken + 1, Len(queue))

\* formatLogMessage: the three shapes of the message and the deltas it prints
formatLogMessage(attempt) ==
    IF attempt.check.success
    THEN [outcome |-> "Success", net |-> attempt.delta, salvaged |-> EmptyRecord]
    ELSE IF attempt.salvage.success
    THEN [outcome |-> "Salvaged", net |-> attempt.delta,
          salvaged |-> attempt.salvageProduced]
    ELSE [outcome |-> "Failed", net |-> attempt.delta, salvaged |-> EmptyRecord]

LogEntryOf(familyId, action, risk, attempts, index) ==
    [index |-> index - 1, familyId |-> familyId, actionId |-> action.id,
     risk |-> risk, message |-> formatLogMessage(attempts[index])]

RollRecordOf(familyId, action, risk, attempts, index) ==
    LET check == attempts[index].check
    IN  [index |-> index - 1, familyId |-> familyId, actionId |-> action.id,
         risk |-> risk, dc |-> check.dc, raw |-> check.raw,
         modifier |-> check.modifier, total |-> check.total,
         success |-> check.success, mode |-> check.mode]

SalvageRecordOf(familyId, action, risk, attempts, index) ==
    LET salvage == attempts[index].salvage
    IN  [index |-> index - 1, familyId |-> familyId, actionId |-> action.id,
         risk |-> risk, dc |-> salvage.dc, raw |-> salvage.raw,
         modifier |-> salvage.modifier, total |-> salvage.total,
         success |-> salvage.success]

RECURSIVE NewSalvages(_, _, _, _, _)
NewSalvages(familyId, action, risk, attempts, index) ==
    IF index > Len(attempts) THEN << >>
    ELSE IF attempts[index].salvage.attempted
    THEN <<SalvageRecordOf(familyId, action, risk, attempts, index)>>
         \o NewSalvages(familyId, action, risk, attempts, index + 1)
    ELSE NewSalvages(familyId, action, risk, attempts, index + 1)

\* the state commitBatchResult sets; statusMessage and overlayFaces are
\* display state and are left out
commitBatchResult(state, familyId, action, risk, batch, finalInventory, manualCheckQueue, manualSalvageQueue) ==
    LET attempts == batch.attempts
        newLogEntries ==
            [index \in 1..Len(attempts) |->
                LogEntryOf(familyId, action, risk, attempts, index)]
        newChecks ==
            [index \in 1..Len(attempts) |->
                RollRecordOf(familyId, action, risk, attempts, index)]
        newSalvages == NewSalvages(familyId, action, risk, attempts, 1)
    IN  [inventory |-> finalInventory,
         store |->
            [state EXCEPT
                !.log = Slice(newLogEntries \o @, MAX_LOG_ENTRIES),
                !.rolls = [checks |-> Slice(newChecks \o @.checks, MAX_ROLL_HISTORY),
                           salvages |-> Slice(newSalvages \o @.salvages,
                                              MAX_ROLL_HISTORY)],
                !.settings = [@ EXCEPT !.manualCheckQueue = manualCheckQueue,
                                       !.manualSalvageQueue = manualSalvageQueue],
                !.sessionMinutes = @ + batch.summary.totalMinutes]]

\* the sources handleRun hands to the engine: closures over copies of the
\* two queues when rolls are resolved manually, none otherwise
RunStreams(settings) ==
    IF settings.rollResolution = "manual"
    THEN [random |-> settings.manualCheckQueue,
          salvageRandom |-> settings.manualSalvageQueue,
          manual |-> TRUE, platform |-> PlatformRolls]
    ELSE [random |-> NotSupplied, salvageRandom |-> NotSupplied,
          manual |-> FALSE, platform |-> PlatformRolls]

\* handleRun after simulateBatch returned r: an error leaves the handler
\* before the commit
CommitRun(r, action, risk) ==
    /\ heap' = r.heap
    /\ ret' = Returned(r)
    /\ IF r.threw
       THEN UNCHANGED <<inv, store>>
       ELSE LET committed ==
                    commitBatchResult(store, family, action, risk, r.batch,
                        r.heap[r.batch.finalInventory],
                        Unconsumed(store.settings.manualCheckQueue, r.rng.random),
                        Unconsumed(store.settings.manualSalvageQueue,
                                   r.rng.salvageRandom))
            IN  /\ inv' = committed.inventory
                /\ store' = committed.store

HandleRun ==
    /\ store.mounted
    /\ Len(store.log) < MaxLogged
    /\ \E i \in 1..Len(ActionsOf(family)), risk \in RisksOf(family),
          extraCatalyst \in ExtraCatalysts, attempts \in {1, MaxAttempts} :
        LET action == ActionsOf(family)[i]
            ctx == Context(action, risk, extraCatalyst, store.settings.modifier,
                           store.settings.rollMode, RunStreams(store.settings))
        IN  /\ call' = [op |-> "handleRun", ctx |-> ctx, attempts |-> attempts,
                        settings |-> store.settings]
            /\ CommitRun(simulateBatch(<<inv>>, ctx, attempts, NoDraws),
                         action, risk)
    /\ UNCHANGED <<family, mathVars, app>>

NextDashboard ==
    \/ HandleRun

SpecDashboard == InitDashboard /\ [][NextDashboard]_vars

(***************************************************************************)
(* The inventory snapshot of the two stores: app/store/craftingStore.ts    *)
(* (store.kind = "crafting") and the store of the natural essence app      *)
(* (store.kind = "naturalEssence").  call keeps the last operation, the    *)
(* state it was applied to and the operation before it; ret what it        *)
(* returned.                                                               *)
(***************************************************************************)
StoreKinds == {"crafting", "naturalEssence"}

\* lib/rules.ts
EMPTY_INVENTORY == [resource \in NATURAL_RESOURCES |-> 0]

\* createDefaultState().inventory
DefaultInventory(kind) ==
    IF kind = "crafting" THEN EmptyRecord ELSE EMPTY_INVENTORY

\* Math.round of the value tenths / 10
Round(tenths) == (tenths + 5) \div 10

\* the values a caller sets a resource to, in tenths: -12, 0, 1.4 and 2.5
EditTenths == {0 - 120, 0, 14, 25}
EditKeys == {"raw", "fine"}

\* the optional argument of snapshotInventory: left out, or an inventory
SnapshotArguments == {NoSnapshot, Snapshot(Dense("natural", Stock({"raw"}, {})))}

setInventoryValue(inventory, key, tenths) ==
    [resource \in DOMAIN inventory \cup {key} |->
        IF resource = key THEN Max(0, Round(tenths)) ELSE inventory[resource]]

snapshotInventory(state, inventory) ==
    [state EXCEPT !.prevInventory =
        Snapshot(IF inventory.present THEN inventory.inventory
                 ELSE state.inventory)]

\* a restore that keeps the snapshot it restored
restoreInventoryKeeps(state) ==
    IF ~state.prevInventory.present
    THEN [state |-> state, returned |-> FALSE]
    ELSE [state |-> [state EXCEPT !.inventory = state.prevInventory.inventory],
          returned |-> TRUE]

restoreInventory(state) ==
    IF ~state.prevInventory.present
    THEN [state |-> state, returned |-> FALSE]
    ELSE [state |-> [inventory |-> state.prevInventory.inventory,
                     prevInventory |-> NoSnapshot],
          returned |-> TRUE]

clearInventory(kind, state) ==
    [inventory |-> DefaultInventory(kind),
     prevInventory |-> Snapshot(state.inventory)]

\* the part of the store these operations read and write
SnapshotState == [inventory |-> inv, prevInventory |-> store.prevInventory]

InitSnapshot ==
    /\ family = "natural"
    /\ \E kind \in StoreKinds :
        /\ inv = DefaultInventory(kind)
        /\ store = [mounted |-> TRUE, kind |-> kind, prevInventory |-> NoSnapshot]
    /\ call = NoCall
    /\ ret = NoRet
    /\ heap = <<inv>>
    /\ probe = NoProbe
    /\ answer = NoAnswer
    /\ app = NoApp

\* the record of an operation: its name, the state it found, and the
\* operation before it with what that returned
Operation(op) ==
    [op |-> op, before |-> SnapshotState,
     prior |-> [op |-> call.op,
                returned |-> IF call.op = "restoreInventory"
                             THEN ret.returned ELSE FALSE]]

Applied(state, returned) ==
    /\ inv' = state.inventory
    /\ store' = [store EXCEPT !.prevInventory = state.prevInventory]
    /\ heap' = <<inv'>>
    /\ ret' = [threw |-> FALSE, returned |-> returned]
    /\ UNCHANGED <<family, mathVars, app>>

SetInventoryValue ==
    \E key \in EditKeys, tenths \in EditTenths :
        /\ call' = Operation("setInventoryValue")
        /\ Applied([SnapshotState EXCEPT
                        !.inventory = setInventoryValue(inv, key, tenths)],
                   FALSE)

SnapshotInventory ==
    \E inventory \in SnapshotArguments :
        /\ call' = [op |-> "snapshotInventory", before |-> SnapshotState,
                    prior |-> Operation("snapshotInventory").prior,
                    inventory |-> inventory]
        /\ Applied(snapshotInventory(SnapshotState, inventory), FALSE)

RestoreInventory ==
    /\ call' = Operation("restoreInventory")
    /\ Applied(restoreInventory(SnapshotState).state,
               restoreInventory(SnapshotState).returned)

ClearInventory ==
    /\ call' = Operation("clearInventory")
    /\ Applied(clearInventory(store.kind, SnapshotState), FALSE)

NextSnapshot ==
    \/ SetInventoryValue
    \/ SnapshotInventory
    \/ RestoreInventory
    \/ ClearInventory

SpecSnapshot == InitSnapshot /\ [][NextSnapshot]_vars

(***************************************************************************)
(* The log and the roll histories of the store of the natural essence app. *)
(* Entries are told apart by their id; call keeps the last operation, the  *)
(* lists it found and the entries it was given.                            *)
(***************************************************************************)
\* the operations of a session of appends and commits
MaxOperations == 3

\* createEntry, createRoll: n entries with the ids from `from` on
Entries(from, n) == [k \in 1..n |-> [id |-> from + k - 1]]

\* the entries a store holds when the session begins: none, or nearly full lists
ExistingEntries ==
    {[log |-> 0, rolls |-> 0],
     [log |-> MAX_LOG_ENTRIES - 2, rolls |-> MAX_ROLL_HISTORY - 1]}

\* the numbers of entries appendLogEntries is given
AppendSizes == {1, 2, 3}

\* the numbers of log entries, checks and salvages a commit is given
CommitSizes ==
    {[logEntries |-> 1, checks |-> 1, salvages |-> 0],
     [logEntries |-> 2, checks |-> 2, salvages |-> 1],
     [logEntries |-> MAX_ROLL_HISTORY + 1, checks |-> MAX_ROLL_HISTORY + 1,
      salvages |-> MAX_ROLL_HISTORY + 1]}

appendLogEntries(state, entries) ==
    [state EXCEPT !.log = Slice(entries \o @, MAX_LOG_ENTRIES)]

commitCraftingResult(state, payload) ==
    [inventory |-> payload.inventory,
     store |->
        [state EXCEPT
            !.settings = [@ EXCEPT !.manualCheckQueue = payload.manualChecks,
                                   !.manualSalvageQueue = payload.manualSalvages],
            !.rolls = [checks |-> Slice(payload.checks \o @.checks,
                                        MAX_ROLL_HISTORY),
                       salvages |-> Slice(payload.salvages \o @.salvages,
                                          MAX_ROLL_HISTORY)],
            !.log = Slice(payload.logEntries \o @, MAX_LOG_ENTRIES),
            !.sessionMinutes = @ + payload.minutes]]

\* setState({ rolls, log }) on the default state
InitHistory ==
    /\ family = "natural"
    /\ inv = EMPTY_INVENTORY
    /\ \E existing \in ExistingEntries :
        /\ store = [mounted |-> TRUE, kind |-> "naturalEssence",
                    prevInventory |-> NoSnapshot,
                    settings |-> [rollMode |-> "auto", advantage |-> "normal",
                                  modifier |-> 0, manualCheckQueue |-> << >>,
                                  manualSalvageQueue |-> << >>],
                    log |-> Entries(1, existing.log),
                    rolls |-> [checks |-> Entries(existing.log + 1, existing.rolls),
                               salvages |-> Entries(existing.log + existing.rolls + 1,
                                                    existing.rolls)],
                    sessionMinutes |-> 0]
        /\ call = [op |-> "setState", count |-> 0,
                   serial |-> existing.log + 2 * existing.rolls + 1]
    /\ ret = NoRet
    /\ heap = <<inv>>
    /\ probe = NoProbe
    /\ answer = NoAnswer
    /\ app = NoApp

\* the record of an operation on the lists
ListOperation(op, n, logEntries, checks, salvages) ==
    [op |-> op, count |-> call.count + 1, serial |-> call.serial + n,
     before |-> [log |-> store.log, rolls |-> store.rolls],
     given |-> [logEntries |-> logEntries, checks |-> checks,
                salvages |-> salvages]]

AppendLogEntries ==
    /\ call.count < MaxOperations
    /\ \E n \in AppendSizes :
        /\ store' = appendLogEntries(store, Entries(call.serial, n))
        /\ call' = ListOperation("appendLogEntries", n, Entries(call.serial, n),
                                 << >>, << >>)
    /\ UNCHANGED <<family, inv, ret, heap, mathVars, app>>

\* the payload of a commit with the given numbers of entries
Payload(sizes) ==
    [inventory |-> [EMPTY_INVENTORY EXCEPT !.raw = MaxQty],
     logEntries |-> Entries(call.serial, sizes.logEntries),
     checks |-> Entries(call.serial + sizes.logEntries, sizes.checks),
     salvages |-> Entries(call.serial + sizes.logEntries + sizes.checks,
                          sizes.salvages),
     manualChecks |-> <<18, 4>>, manualSalvages |-> <<7>>, minutes |-> 12]

CommitCraftingResult ==
    /\ call.count < MaxOperations
    /\ \E sizes \in CommitSizes :
        /\ inv' = commitCraftingResult(store, Payload(sizes)).inventory
        /\ store' = commitCraftingResult(store, Payload(sizes)).store
        /\ call' = ListOperation("commitCraftingResult",
                                 sizes.logEntries + sizes.checks + sizes.salvages,
                                 Payload(sizes).logEntries, Payload(sizes).checks,
                                 Payload(sizes).salvages)
    /\ heap' = <<inv'>>
    /\ UNCHANGED <<family, ret, mathVars, app>>

NextHistory ==
    \/ AppendLogEntries
    \/ CommitCraftingResult

SpecHistory == InitHistory /\ [][NextHistory]_vars

(***************************************************************************)
(* components/NaturalEssenceCraftingApp.tsx: the inventory card.  inv is   *)
(* state.inventory, app holds prevInventory and the status message; call   *)
(* keeps the last handler and, for a run of consecutive manual edits, the  *)
(* inventory before the first of them.                                     *)
(***************************************************************************)
InitApp ==
    /\ family = "natural"
    /\ inv = EMPTY_INVENTORY
    /\ app = [mounted |-> TRUE, prevInventory |-> NoSnapshot,
              statusMessage |-> "null"]
    /\ call = NoCall
    /\ ret = NoRet
    /\ heap = <<inv>>
    /\ probe = NoProbe
    /\ answer = NoAnswer
    /\ store = NoStore

\* the inventory before the first of the manual edits that end with the
\* last handler call
BeforeEdits == IF call.op = "handleInventoryChange" THEN call.base ELSE inv

\* onChange of an input of the inventory card
HandleInventoryChange ==
    /\ app.mounted
    /\ \E key \in EditKeys, tenths \in EditTenths :
        /\ inv' = setInventoryValue(inv, key, Max(0, tenths))
        /\ call' = [op |-> "handleInventoryChange", base |-> BeforeEdits,
                    edited |-> TRUE]
    /\ heap' = <<inv'>>
    /\ UNCHANGED <<family, ret, mathVars, store, app>>

HandleUndo ==
    /\ app.mounted
    /\ IF ~app.prevInventory.present
       THEN /\ app' = [app EXCEPT !.statusMessage = "Nothing to undo yet."]
            /\ inv' = inv
       ELSE /\ inv' = app.prevInventory.inventory
            /\ app' = [app EXCEPT
                          !.prevInventory = NoSnapshot,
                          !.statusMessage =
                              "Inventory restored to previous snapshot."]
    /\ call' = [op |-> "handleUndo", base |-> BeforeEdits,
                edited |-> call.op = "handleInventoryChange"]
    /\ heap' = <<inv'>>
    /\ UNCHANGED <<family, ret, mathVars, store>>

HandleClear ==
    /\ app.mounted
    /\ app' = [app EXCEPT !.prevInventory = Snapshot(inv),
                          !.statusMessage = "Inventory cleared."]
    /\ inv' = EMPTY_INVENTORY
    /\ call' = [op |-> "handleClear", base |-> inv', edited |-> FALSE]
    /\ heap' = <<inv'>>
    /\ UNCHANGED <<family, ret, mathVars, store>>

NextApp ==
    \/ HandleInventoryChange
    \/ HandleUndo
    \/ HandleClear

SpecApp == InitApp /\ [][NextApp]_vars

(***************************************************************************)
(* Properties.  The vocabulary of the claims, stated on the pending call.  *)
(***************************************************************************)
Attempted == call.op = "simulateAttempt"
Batched == call.op = "simulateBatch"
Previewed == call.op = "previewAction"
Counted == call.op = "maxFeasibleAttempts"

\* the action, risk and extraCatalyst of the pending call
CallAction == IF Attempted \/ Batched THEN call.ctx.action ELSE call.action
CallRisk == IF Attempted \/ Batched THEN call.ctx.risk ELSE call.risk
CallExtra ==
    IF Attempted \/ Batched THEN call.ctx.extraCatalyst ELSE call.extraCatalyst

\* base consumption plus extra catalyst, per attempt, against an inventory
TotalConsumption(action, risk, extraCatalyst, inventory) ==
    LET base == ActionIo(action, resolveRisk(action, risk), inventory).consume
        catalyst == IF action.dcReduction.defined
                    THEN {action.dcReduction.resource} ELSE {}
    IN  [resource \in DOMAIN base \cup catalyst |->
            Get(base, resource)
                + (IF resource \in catalyst THEN extraCatalyst ELSE 0)]

\* some resource with positive total consumption is held in a smaller amount
Short(action, risk, extraCatalyst, inventory) ==
    LET needed == TotalConsumption(action, risk, extraCatalyst, inventory)
    IN  \E resource \in DOMAIN needed :
            /\ needed[resource] > 0
            /\ Get(inventory, resource) < needed[resource]

\* the action has a risk-table entry for the resolved risk, or a dc rule
DcResolves(action, risk) ==
    \/ HasRiskEntry(action, resolveRisk(action, risk))
    \/ action.dcKind \in {"function", "number"}

InfeasibleResult(result, inventory) ==
    /\ ~result.feasible
    /\ heap[result.inventory] = inventory
    /\ result.delta = EmptyRecord
    /\ result.consumed = EmptyRecord
    /\ result.produced = EmptyRecord
    /\ result.salvageProduced = EmptyRecord

\* C1 as stated: for every action, a simulateAttempt against an inventory that
\* is short of a resource it consumes does not throw and returns feasible=false
\* with the input inventory's entries and empty delta, consumed, produced and
\* salvageProduced.
C1_EveryActionInfeasible ==
    (Attempted /\ Short(CallAction, CallRisk, CallExtra, inv))
        => (~ret.threw /\ InfeasibleResult(ret.result, inv))

\* C1 amended: the same, for every action whose DC resolves (a risk-table
\* entry for the resolved risk, or a function or numeric dc rule).
C1_ShortIsInfeasible ==
    (Attempted /\ DcResolves(CallAction, CallRisk)
        /\ Short(CallAction, CallRisk, CallExtra, inv))
        => (~ret.threw /\ InfeasibleResult(ret.result, inv))

\* a T4 refine that the inventory affords, but not with the extra catalyst
C1_Witness ==
    /\ Attempted
    /\ CallAction.id = "natural.T4.refine"
    /\ CallExtra > 0
    /\ ~Short(CallAction, CallRisk, 0, inv)
    /\ Short(CallAction, CallRisk, CallExtra, inv)
    /\ ~ret.threw
    /\ InfeasibleResult(ret.result, inv)

\* every inventory reference a completed call handed back
ReturnedRefs ==
    IF ret.threw THEN {}
    ELSE IF Attempted THEN {ret.result.inventory}
    ELSE IF Batched
    THEN {ret.batch.finalInventory}
            \cup {ret.batch.attempts[i].inventory :
                    i \in 1..Len(ret.batch.attempts)}
    ELSE {}

\* C2: no engine call changes the inventory object the caller passed in, and
\* every inventory a call returns is another object.
C2_CallerInventoryUntouched ==
    (call # NoCall)
        => /\ heap[CallerRef] = inv
           /\ \A ref \in ReturnedRefs : ref # CallerRef /\ ref \in 1..Len(heap)

C2_Witness ==
    /\ Batched
    /\ ~ret.threw
    /\ Len(ret.batch.attempts) = 2
    /\ heap[ret.batch.finalInventory] # inv
    /\ heap[CallerRef] = inv

NonNegative(inventory) == \A resource \in DOMAIN inventory : inventory[resource] \in Nat

\* the inventory attempt i of a batch was resolved against
BatchInput(i) ==
    IF i = 1 THEN inv ELSE heap[ret.batch.attempts[i - 1].inventory]

Affordable(result, inventory) ==
    result.feasible
        => \A resource \in DOMAIN result.consumed :
              result.consumed[resource] <= Get(inventory, resource)

\* C3: in the Natural family, along any chain of simulateAttempt and
\* simulateBatch calls every inventory held or returned has only non-negative
\* integer entries, and an attempt is applied only if the inventory it was
\* resolved against held everything it consumes.
C3_NaturalInventoryNonNegative ==
    (family = "natural")
        => /\ NonNegative(inv)
           /\ \A ref \in ReturnedRefs : NonNegative(heap[ref])
           /\ (Attempted /\ ~ret.threw) => Affordable(ret.result, inv)
           /\ (Batched /\ ~ret.threw)
                => \A i \in 1..Len(ret.batch.attempts) :
                      Affordable(ret.batch.attempts[i], BatchInput(i))

C3_Witness ==
    /\ family = "natural"
    /\ Batched
    /\ ~ret.threw
    /\ Len(ret.batch.attempts) = 2
    /\ inv # Stock({"raw"}, {})
    /\ \E resource \in DOMAIN inv :
          inv[resource] > 0 /\ heap[ret.batch.finalInventory][resource] = 0

\* K: maxFeasibleAttempts on the inventory the pending batch started from
BatchK ==
    maxFeasibleAttempts(<<inv>>, CallAction, CallerRef, CallRisk, CallExtra)

BatchReturned == Batched /\ ~ret.threw

SalvagedIn(attempts) ==
    \E i \in 1..Len(attempts) : attempts[i].salvage.success

C5_StopsAtFirstInfeasible ==
    BatchReturned
        => LET attempts == ret.batch.attempts
               final == heap[ret.batch.finalInventory]
           IN  /\ \A i \in 1..Len(attempts) :
                     /\ attempts[i].feasible
                     /\ ~Short(CallAction, CallRisk, CallExtra, BatchInput(i))
               /\ Len(attempts) <= call.attempts
               /\ Len(attempts) < call.attempts
                    => /\ Short(CallAction, CallRisk, CallExtra, final)
                       /\ ret.evaluated = Len(attempts) + 1
               /\ Len(attempts) = call.attempts
                    => ret.evaluated = call.attempts
               /\ (call.attempts = 0
                     \/ Short(CallAction, CallRisk, CallExtra, inv))
                    => (attempts = << >> /\ final = inv)

C5_Witness ==
    /\ BatchReturned
    /\ call.attempts = 2
    /\ Len(ret.batch.attempts) = 1
    /\ ret.evaluated = 2
    /\ Short(CallAction, CallRisk, CallExtra, heap[ret.batch.finalInventory])

RECURSIVE SumMinutes(_)
SumMinutes(attempts) ==
    IF attempts = << >> THEN 0
    ELSE attempts[1].timeMinutes + SumMinutes(Tail(attempts))

RECURSIVE SumDelta(_, _)
SumDelta(attempts, resource) ==
    IF attempts = << >> THEN 0
    ELSE Get(attempts[1].delta, resource) + SumDelta(Tail(attempts), resource)

\* C6: runs is the number of listed attempts and at most the requested count,
\* totalMinutes is the sum of their timeMinutes, and for every resource
\* summary.delta is the sum of their deltas.
C6_SummaryAggregates ==
    BatchReturned
        => LET batch == ret.batch
           IN  /\ batch.summary.runs = Len(batch.attempts)
               /\ batch.summary.runs <= call.attempts
               /\ batch.summary.totalMinutes = SumMinutes(batch.attempts)
               /\ \A resource \in ResourcesOf(family) \cup DOMAIN batch.summary.delta :
                     Get(batch.summary.delta, resource)
                        = SumDelta(batch.attempts, resource)

C6_Witness ==
    /\ BatchReturned
    /\ Len(ret.batch.attempts) = 2
    /\ ret.batch.attempts[1].delta # ret.batch.attempts[2].delta
    /\ \E resource \in DOMAIN ret.batch.summary.delta :
          /\ Get(ret.batch.attempts[1].delta, resource) < 0
          /\ Get(ret.batch.attempts[2].delta, resource) < 0

\* every delta record a completed call returned
ReturnedDeltas ==
    IF ret.threw THEN {}
    ELSE IF Attempted THEN {ret.result.delta}
    ELSE IF Batched
    THEN {ret.batch.summary.delta}
            \cup {ret.batch.attempts[i].delta : i \in 1..Len(ret.batch.attempts)}
    ELSE {}

\* C7 as stated: no returned delta record has a key whose value is 0.
C7_NoZeroKey ==
    \A delta \in ReturnedDeltas :
        \A resource \in DOMAIN delta : delta[resource] # 0

\* the resources of which an attempt consumed or produced a non-zero amount
Touched(result) ==
    {resource \in DOMAIN result.consumed : result.consumed[resource] # 0}
        \cup {resource \in DOMAIN result.produced : result.produced[resource] # 0}
        \cup {resource \in DOMAIN result.salvageProduced :
                result.salvageProduced[resource] # 0}

SparseDelta(result) ==
    /\ DOMAIN result.delta = Touched(result)
    /\ \A resource \in DOMAIN result.delta :
          result.delta[resource] =
              Get(result.produced, resource)
                  + Get(result.salvageProduced, resource)
                  - Get(result.consumed, resource)

\* C7 amended: a delta record has a key exactly for the resources of which the
\* attempt (for summary.delta: some listed attempt) consumed or produced a
\* non-zero amount; the value is 0 only where what was produced or salvaged
\* cancels what was consumed.
C7_KeysAreTouched ==
    /\ (Attempted /\ ~ret.threw) => SparseDelta(ret.result)
    /\ BatchReturned
         => /\ \A i \in 1..Len(ret.batch.attempts) :
                  SparseDelta(ret.batch.attempts[i])
            /\ DOMAIN ret.batch.summary.delta
                  = {resource \in UNION {DOMAIN ret.batch.attempts[i].delta :
                                            i \in 1..Len(ret.batch.attempts)} :
                        \E i \in 1..Len(ret.batch.attempts) :
                            Get(ret.batch.attempts[i].delta, resource) # 0}

C7_Witness ==
    /\ Attempted
    /\ ~ret.threw
    /\ CallAction.id = "natural.T3.infuse"
    /\ ret.result.salvage.success
    /\ ret.result.delta = ("fine" :> 0) @@ ("rawAE" :> (0 - 2))

FeasibleAttempt == Attempted /\ ~ret.threw /\ ret.result.feasible

MainDice == IF call.ctx.mode = "normal" THEN 1 ELSE 2

\* C8 as stated: in every feasible attempt the source random is consumed
\* exactly once in normal mode and twice in adv/dis mode, whether or not a
\* salvage roll is made and whether or not salvageRandom is supplied.
C8_MainSourceOnlyMainCheck ==
    (FeasibleAttempt /\ call.ctx.streams.random # NotSupplied)
        => ret.rng.random = MainDice

\* C8 amended: the main check consumes random once (normal) or twice
\* (adv/dis); a salvage roll is taken from salvageRandom when that is supplied,
\* and takes one further value from random only when it is not.
C8_SalvageSourceSeparate ==
    FeasibleAttempt
        => LET streams == call.ctx.streams
               rolled == IF ret.result.salvage.attempted THEN 1 ELSE 0
           IN  /\ (streams.random # NotSupplied /\ streams.salvageRandom # NotSupplied)
                    => /\ ret.rng.random = MainDice
                       /\ ret.rng.salvageRandom = rolled
                       /\ ret.rng.platform = 0
               /\ (streams.random # NotSupplied /\ streams.salvageRandom = NotSupplied)
                    => /\ ret.rng.random = MainDice + rolled
                       /\ ret.rng.platform = 0
               /\ (streams.random = NotSupplied /\ streams.salvageRandom # NotSupplied)
                    => /\ ret.rng.platform = MainDice
                       /\ ret.rng.salvageRandom = rolled
               /\ (streams.random = NotSupplied /\ streams.salvageRandom = NotSupplied)
                    => ret.rng.platform = MainDice + rolled

C8_Witness ==
    /\ FeasibleAttempt
    /\ call.ctx.mode = "adv"
    /\ call.ctx.streams.random # NotSupplied
    /\ call.ctx.streams.salvageRandom # NotSupplied
    /\ ret.result.salvage.attempted
    /\ ret.rng = [random |-> 2, salvageRandom |-> 1, platform |-> 0]

\* C9: for every dc, perUnit, minimum and extra >= 0 (extra = 0 included),
\* applyDcReduction returns at least the minimum.
C9_AtLeastMinimum ==
    (probe.fn = "applyDcReduction" /\ answer.returned /\ probe.extra >= 0)
        => answer.value >= probe.min

\* C10: simulateAttempt and previewAction (and so simulateBatch, on its first
\* attempt) throw an error naming the action, return nothing, draw no roll
\* and leave the caller's inventory alone whenever the action has neither a
\* risk-table entry for the resolved risk nor a function or numeric dc rule.
C10_UnresolvedDcThrows ==
    ((Attempted \/ Previewed \/ (Batched /\ call.attempts > 0))
        /\ ~DcResolves(CallAction, CallRisk))
        => /\ ret.threw
           /\ ret.error = <<"Unable to resolve DC for action", CallAction.id>>
           /\ DOMAIN ret \cap {"result", "batch", "preview"} = {}
           /\ (~Previewed => ret.rng = NoDraws)
           /\ heap[CallerRef] = inv

C10_Witness ==
    /\ Attempted
    /\ CallAction.id = "fixture.norisks"
    /\ CallRisk = "risky"
    /\ ~Short(CallAction, CallRisk, CallExtra, inv)
    /\ ret.threw

\* the resources of the pending call whose total per-attempt consumption is positive
Limiting ==
    LET needed == TotalConsumption(CallAction, CallRisk, CallExtra, inv)
    IN  {resource \in DOMAIN needed : needed[resource] > 0}

\* floor(available / consumption) of a limiting resource
LimitOf(resource) ==
    Get(inv, resource)
        \div TotalConsumption(CallAction, CallRisk, CallExtra, inv)[resource]

\* C11: maxFeasibleAttempts is infinite exactly when no resource has positive
\* total per-attempt consumption (base plus extra catalyst); otherwise it is
\* the minimum over those resources of floor(available / consumption), a
\* missing inventory entry counting as 0.
C11_MinimumOfQuotients ==
    Counted
        => IF Limiting = {}
           THEN ret.max.infinite
           ELSE /\ ~ret.max.infinite
                /\ \A resource \in Limiting : ret.max.value <= LimitOf(resource)
                /\ \E resource \in Limiting : ret.max.value = LimitOf(resource)

\* a T4 refine limited by the extra rawAE, not by the fused essence it holds
C11_Witness ==
    /\ Counted
    /\ CallAction.id = "natural.T4.refine"
    /\ CallExtra > 0
    /\ ret.max = [infinite |-> FALSE, value |-> 1]
    /\ LimitOf("rawAE") = 1
    /\ LimitOf("fused") > 1

ProfileReturned ==
    probe.fn = "computeSuccessProfile" /\ answer.returned /\ ~answer.threw

\* the profile of the probed tier, risk, extra and modifier under another mode
ProfileUnder(advantage) ==
    computeSuccessProfile(probe.tier, probe.risk, probe.extraRawAE,
                          probe.modifier, advantage)

\* C12: for every tier, supported risk, extra catalyst and modifier, the
\* salvage odds of computeSuccessProfile (whether there is a salvage, its dc and
\* its chance) are the same under normal, advantage and disadvantage; the dc
\* is the same too, and only successChance follows the mode.
C12_SalvageChanceIgnoresMode ==
    ProfileReturned
        => \A advantage \in AdvantageModes :
              /\ ProfileUnder(advantage).hasSalvage = answer.profile.hasSalvage
              /\ ProfileUnder(advantage).salvageDc = answer.profile.salvageDc
              /\ ProfileUnder(advantage).salvageChance = answer.profile.salvageChance
              /\ ProfileUnder(advantage).dc = answer.profile.dc

\* an advantaged profile with uncertain salvage whose main odds differ from
\* the normal ones
C12_Witness ==
    /\ ProfileReturned
    /\ probe.advantage = "advantage"
    /\ answer.profile.hasSalvage
    /\ answer.profile.salvageChance \in 1..(ProbDen - 1)
    /\ answer.profile.successChance > ProfileUnder("normal").successChance
    /\ ProfileUnder("disadvantage").successChance
            < ProfileUnder("normal").successChance

ChanceReturned == probe.fn = "chanceForMode" /\ answer.returned

\* C13: for all integer dc and modifier, chanceWithAdv >= chanceNormal >=
\* chanceWithDis, in engine/math.ts (through chanceForMode) and in lib/math.ts
\* (chanceWithAdvMode).
C13_AdvantageDominates ==
    ChanceReturned
        => LET normal == chanceNormal(probe.dc, probe.modifier)
           IN  /\ probe.mode = "adv" => answer.value >= normal
               /\ probe.mode = "dis" => answer.value <= normal
               /\ probe.mode = "normal" => answer.value = normal
               /\ chanceWithAdvMode(probe.dc, probe.modifier, "advantage") >= normal
               /\ chanceWithAdvMode(probe.dc, probe.modifier, "disadvantage") <= normal

C13_Witness ==
    /\ ChanceReturned
    /\ probe.mode = "adv"
    /\ answer.value > chanceNormal(probe.dc, probe.modifier)
    /\ chanceNormal(probe.dc, probe.modifier) > chanceWithDis(probe.dc, probe.modifier)
    /\ chanceWithDis(probe.dc, probe.modifier) > 0

NormalReturned == ChanceReturned /\ probe.mode = "normal"

\* C14: for a fixed dc and integer modifiers m1 <= m2,
\* chanceNormal(dc, m1) <= chanceNormal(dc, m2).
C14_MonotoneInModifier ==
    NormalReturned
        => \A other \in ChanceModifiers :
              /\ other >= probe.modifier
                    => chanceNormal(probe.dc, other) >= answer.value
              /\ other <= probe.modifier
                    => chanceNormal(probe.dc, other) <= answer.value

C14_Witness ==
    /\ NormalReturned
    /\ answer.value > 0
    /\ \E other \in ChanceModifiers :
          /\ other > probe.modifier
          /\ chanceNormal(probe.dc, other) > answer.value

\* the faces of the d20 that meet the dc with the modifier added, as
\* simulateAttempt compares raw + modifier >= dc
SuccessFaces(dc, modifier) == {face \in 1..Sides : face + modifier >= dc}

\* C15: for all integer dc and modifier, chanceNormal is the number of faces
\* f in 1..20 with f + modifier >= dc, divided by 20, and lies in [0, 1].
C15_FaceCount ==
    NormalReturned
        => /\ answer.value * Sides
                = Cardinality(SuccessFaces(probe.dc, probe.modifier)) * ProbDen
           /\ answer.value >= 0
           /\ answer.value <= ProbDen

C15_Witness ==
    /\ NormalReturned
    /\ probe.modifier # 0
    /\ Cardinality(SuccessFaces(probe.dc, probe.modifier)) \in 1..(Sides - 1)
    /\ answer.value \in 1..(ProbDen - 1)

(***************************************************************************)
(* The dashboard: the last run of handleRun and the dice it resolved.      *)
(***************************************************************************)
Ran == call.op = "handleRun"
ManualRun == Ran /\ call.settings.rollResolution = "manual"

\* the dice of the main rolls of the listed attempts, in the order rolled
RECURSIVE CheckDice(_)
CheckDice(attempts) ==
    IF attempts = << >> THEN << >>
    ELSE Head(attempts).check.detail \o CheckDice(Tail(attempts))

\* the dice of the salvage rolls of the listed attempts, in the order rolled
RECURSIVE SalvageDice(_)
SalvageDice(attempts) ==
    IF attempts = << >> THEN << >>
    ELSE IF Head(attempts).salvage.attempted
    THEN <<Head(attempts).salvage.raw>> \o SalvageDice(Tail(attempts))
    ELSE SalvageDice(Tail(attempts))

\* the faces Math.random rolls during a run
PlatformFaces ==
    {Min(20, Max(1, ((PlatformRolls[k] * 20) \div RandDen) + 1)) :
        k \in 1..Len(PlatformRolls)}

\* dice are the faces of queue, in order from the front, and faces of
\* Math.random once the queue has run out
TakenFromFront(dice, queue) ==
    /\ \A k \in 1..Min(Len(dice), Len(queue)) : dice[k] = queue[k]
    /\ \A k \in (Len(queue) + 1)..Len(dice) : dice[k] \in PlatformFaces

\* what is left of queue after dice were rolled from it
Suffix(queue, dice) == SubSeq(queue, Len(dice) + 1, Len(queue))

\* C16: a batch run with manual roll resolution completes without error; the
\* dice of its main rolls (one per completed attempt, two with advantage or
\* disadvantage) are the faces of the manual check queue in order from the
\* front, the dice of its salvage rolls those of the manual salvage queue;
\* the rolls a queue cannot serve come from Math.random; and the queues the
\* store holds afterwards are exactly the unconsumed suffixes.
C16_ManualQueuesConsumedInOrder ==
    ManualRun =>
        /\ ~ret.threw
        /\ Len(CheckDice(ret.batch.attempts)) = Len(ret.batch.attempts) * MainDice
        /\ TakenFromFront(CheckDice(ret.batch.attempts),
                          call.settings.manualCheckQueue)
        /\ TakenFromFront(SalvageDice(ret.batch.attempts),
                          call.settings.manualSalvageQueue)
        /\ ret.rng.platform =
              Max(0, Len(CheckDice(ret.batch.attempts))
                        - Len(call.settings.manualCheckQueue))
              + Max(0, Len(SalvageDice(ret.batch.attempts))
                        - Len(call.settings.manualSalvageQueue))
        /\ store.settings.manualCheckQueue =
              Suffix(call.settings.manualCheckQueue,
                     CheckDice(ret.batch.attempts))
        /\ store.settings.manualSalvageQueue =
              Suffix(call.settings.manualSalvageQueue,
                     SalvageDice(ret.batch.attempts))

\* a manual run whose check queue ran out in mid-batch and whose salvage roll
\* took the front of the salvage queue and left the rest
C16_Witness ==
    /\ ManualRun
    /\ ~ret.threw
    /\ call.settings.manualCheckQueue # << >>
    /\ Len(CheckDice(ret.batch.attempts)) > Len(call.settings.manualCheckQueue)
    /\ SalvageDice(ret.batch.attempts) # << >>
    /\ store.settings.manualSalvageQueue # << >>
    /\ store.settings.manualSalvageQueue # call.settings.manualSalvageQueue

(***************************************************************************)
(* The stores: the last operation and the state it left.                   *)
(***************************************************************************)
Restored == call.op = "restoreInventory"

\* C17: restoreInventory on a store that holds a snapshot returns true,
\* makes the snapshot the inventory and discards it; on a store without one
\* it returns false and changes nothing, which is the case of a restore
\* that follows a successful restore.  The snapshot a store holds is the
\* one the last snapshotInventory or clearInventory took: setInventoryValue
\* leaves it alone.
C17_RestoreMostRecentSnapshot ==
    /\ (Restored /\ call.before.prevInventory.present) =>
            /\ ret.returned
            /\ inv = call.before.prevInventory.inventory
            /\ store.prevInventory = NoSnapshot
    /\ (Restored /\ ~call.before.prevInventory.present) =>
            /\ ~ret.returned
            /\ inv = call.before.inventory
            /\ store.prevInventory = NoSnapshot
    /\ (Restored /\ call.prior.op = "restoreInventory" /\ call.prior.returned) =>
            /\ ~ret.returned
            /\ inv = call.before.inventory
    /\ call.op = "snapshotInventory" =>
            store.prevInventory =
                Snapshot(IF call.inventory.present THEN call.inventory.inventory
                         ELSE call.before.inventory)
    /\ call.op = "clearInventory" =>
            store.prevInventory = Snapshot(call.before.inventory)
    /\ call.op = "setInventoryValue" =>
            store.prevInventory = call.before.prevInventory

\* a restore that brought back a stocked inventory, repeated at once
C17_Witness ==
    /\ Restored
    /\ call.prior.op = "restoreInventory"
    /\ call.prior.returned
    /\ ~ret.returned
    /\ inv # DefaultInventory(store.kind)
    /\ \E resource \in DOMAIN inv : inv[resource] > 0

ListsChanged == call.op \in {"appendLogEntries", "commitCraftingResult"}

\* list is the entries given followed by the entries held before, cut after
\* the first cap entries
PrependedAndTrimmed(list, given, before, cap) ==
    /\ Len(list) = Min(cap, Len(given) + Len(before))
    /\ \A k \in 1..Len(list) :
          list[k] = IF k <= Len(given) THEN given[k] ELSE before[k - Len(given)]

\* C18: after every append and every commit the log holds at most
\* MAX_LOG_ENTRIES entries and each roll history at most MAX_ROLL_HISTORY;
\* each list begins with the entries just given, in the order given, followed
\* by the entries it held before, in their order; what is dropped is the end
\* of that sequence, the entries furthest from the front.
C18_HistoriesPrependedAndCapped ==
    /\ store.mounted /\ "log" \in DOMAIN store =>
        /\ Len(store.log) <= MAX_LOG_ENTRIES
        /\ Len(store.rolls.checks) <= MAX_ROLL_HISTORY
        /\ Len(store.rolls.salvages) <= MAX_ROLL_HISTORY
    /\ ListsChanged =>
        /\ PrependedAndTrimmed(store.log, call.given.logEntries,
                               call.before.log, MAX_LOG_ENTRIES)
        /\ PrependedAndTrimmed(store.rolls.checks, call.given.checks,
                               call.before.rolls.checks, MAX_ROLL_HISTORY)
        /\ PrependedAndTrimmed(store.rolls.salvages, call.given.salvages,
                               call.before.rolls.salvages, MAX_ROLL_HISTORY)

\* a commit, after another operation, that pushed entries off the end of the
\* log and of both roll histories and kept some of the older ones
C18_Witness ==
    /\ call.op = "commitCraftingResult"
    /\ call.count >= 2
    /\ Len(call.before.log) + Len(call.given.logEntries) > MAX_LOG_ENTRIES
    /\ Len(call.before.rolls.checks) + Len(call.given.checks) > MAX_ROLL_HISTORY
    /\ Len(call.before.rolls.salvages) + Len(call.given.salvages) > MAX_ROLL_HISTORY
    /\ Len(call.given.checks) < MAX_ROLL_HISTORY
    /\ Len(store.log) = MAX_LOG_ENTRIES
    /\ Len(store.rolls.checks) = MAX_ROLL_HISTORY

\* C19: an Undo that follows one or more consecutive manual edits leaves the
\* inventory as it was before the first of those edits; this covers the Undo
\* of an edit made after an earlier Undo.
C19_UndoRestoresBeforeFirstEdit ==
    (call.op = "handleUndo" /\ call.edited) => inv = call.base

\* the values drawn from all sources by the dice of the listed attempts
DrawsFor(attempts) ==
    Len(attempts) * MainDice
    + Cardinality({i \in 1..Len(attempts) : attempts[i].salvage.attempted})

StoppedBatch == BatchReturned /\ Len(ret.batch.attempts) < call.attempts

\* C20: an attempt found infeasible has drawn no value from any source; a
\* batch, stopped by an infeasible attempt or not, has drawn exactly the values
\* of the dice of the attempts it lists, and with manual sources has taken
\* from the check queue and the salvage queue exactly the faces of those
\* dice.
C20_InfeasibleDrawsNothing ==
    /\ (Attempted /\ ~ret.threw /\ ~ret.result.feasible) => ret.rng = NoDraws
    /\ BatchReturned =>
        /\ ret.rng.random + ret.rng.salvageRandom + ret.rng.platform
              = DrawsFor(ret.batch.attempts)
        /\ call.ctx.streams.manual =>
              /\ ret.rng.random = Len(CheckDice(ret.batch.attempts))
              /\ ret.rng.salvageRandom = Len(SalvageDice(ret.batch.attempts))
              /\ TakenFromFront(CheckDice(ret.batch.attempts),
                                call.ctx.streams.random)
              /\ TakenFromFront(SalvageDice(ret.batch.attempts),
                                call.ctx.streams.salvageRandom)

\* a batch with manual sources that completed an attempt with a salvage roll
\* and was then stopped by an infeasible attempt
C20_Witness ==
    /\ StoppedBatch
    /\ call.ctx.streams.manual
    /\ Len(ret.batch.attempts) > 0
    /\ SalvageDice(ret.batch.attempts) # << >>
    /\ ret.evaluated = Len(ret.batch.attempts) + 1

\* the inventory of the listed attempt i resolves the rules of the pending
\* batch to the values that attempt reports
ResolvedAgainst(result, input) ==
    LET risk == resolveRisk(CallAction, CallRisk)
        io == ActionIo(CallAction, risk, input)
    IN  /\ result.consumed
              = withExtraCatalystConsumption(CallAction, io.consume, CallExtra)
        /\ isFeasible(input, result.consumed)
        /\ result.check.dc
              = applyReduction(CallAction,
                               resolveDcAndTime(CallAction, risk, input).baseDc,
                               CallExtra)
        /\ result.check.success => result.produced = io.produceOnSuccess
        /\ result.salvage.attempted
              => /\ io.hasSalvage
                 /\ result.salvage.dc = io.salvage.dc
                 /\ result.salvage.success
                      => \A resource \in DOMAIN io.salvage.produce :
                            Get(result.salvageProduced, resource)
                               = io.salvage.produce[resource]

\* C21: every listed attempt of a batch after the first is resolved against
\* the inventory the attempt before it returned (the first against the
\* initial inventory): its feasibility test, its difficulty rule and its I/O
\* rule see that inventory; finalInventory is the inventory the last listed
\* attempt returned.
C21_AttemptsThreaded ==
    BatchReturned
        => /\ \A i \in 1..Len(ret.batch.attempts) :
                 ResolvedAgainst(ret.batch.attempts[i], BatchInput(i))
           /\ ret.batch.attempts # << >>
                => ret.batch.finalInventory
                      = ret.batch.attempts[Len(ret.batch.attempts)].inventory
           /\ ret.batch.attempts = << >>
                => heap[ret.batch.finalInventory] = inv

\* a batch whose second attempt met another difficulty than its first,
\* because the first changed the inventory the difficulty rule reads
C21_Witness ==
    /\ BatchReturned
    /\ Len(ret.batch.attempts) = 2
    /\ CallAction.dcKind = "function"
    /\ ret.batch.attempts[1].check.dc # ret.batch.attempts[2].check.dc
    /\ heap[ret.batch.finalInventory] # inv

\* the DC an attempt of the pending call meets against an inventory: the
\* resolved base DC, lowered by the extra catalyst where the action has a
\* reduction rule
ReducedDc(inventory) ==
    LET base == resolveDcAndTime(CallAction, resolveRisk(CallAction, CallRisk),
                                 inventory).baseDc
        rule == CallAction.dcReduction
    IN  IF rule.defined /\ CallExtra > 0
        THEN Max(rule.minDC, base - rule.perUnit * CallExtra)
        ELSE base

\* what the I/O rule of the pending call makes on success, against an inventory
ProduceOnSuccess(inventory) ==
    ActionIo(CallAction, resolveRisk(CallAction, CallRisk), inventory).produceOnSuccess

\* C22: for every feasible attempt, check.total = check.raw + modifier,
\* check.dc is the DC after catalyst reduction, check.success holds exactly
\* when check.total >= check.dc, and produceOnSuccess is added to the
\* inventory exactly when check.success holds.
C22_MainCheckDecidesProduce ==
    FeasibleAttempt
        => LET result == ret.result
               check == result.check
               made == ProduceOnSuccess(inv)
           IN  /\ check.total = check.raw + call.ctx.modifier
               /\ check.modifier = call.ctx.modifier
               /\ check.dc = ReducedDc(inv)
               /\ check.success <=> (check.total >= check.dc)
               /\ result.produced = (IF check.success THEN made ELSE EmptyRecord)
               /\ \A resource \in DOMAIN made :
                     Get(heap[result.inventory], resource)
                        = Get(inv, resource) - Get(result.consumed, resource)
                            + (IF check.success THEN made[resource] ELSE 0)
                            + Get(result.salvageProduced, resource)

\* a standard T2 refine that succeeded on its modifier: two raw for one fine
C22_Witness ==
    /\ FeasibleAttempt
    /\ CallAction.id = "natural.T2.refine"
    /\ resolveRisk(CallAction, CallRisk) = "standard"
    /\ call.ctx.modifier > 0
    /\ ret.result.check.raw < ret.result.check.dc
    /\ ret.result.check.success
    /\ ret.result.delta = ("raw" :> (0 - 2)) @@ ("fine" :> 1)
    /\ Get(heap[ret.result.inventory], "fine") = Get(inv, "fine") + 1

\* the calls of random sources a completed call made
DrawsMade == ret.rng.random + ret.rng.salvageRandom + ret.rng.platform

\* the salvage clause of the pending call's I/O rule against an inventory
SalvageClause(inventory) ==
    LET io == ActionIo(CallAction, resolveRisk(CallAction, CallRisk), inventory)
    IN  [defined |-> io.hasSalvage, dc |-> io.salvage.dc,
         produce |-> io.salvage.produce]

\* C23: a feasible attempt makes a salvage roll exactly when its main check
\* failed and the resolved I/O rule has a salvage clause; the roll is one d20
\* whatever the roll mode, it succeeds exactly when roll + modifier >= the
\* salvage DC, and the salvage produce is added exactly when it succeeds; in
\* every other feasible attempt salvage.attempted is false and nothing is
\* salvaged.
C23_SalvageOnlyOnFailure ==
    FeasibleAttempt
        => LET result == ret.result
               salvage == result.salvage
               clause == SalvageClause(inv)
               salvaged == salvage.attempted /\ salvage.success
           IN  /\ salvage.attempted <=> (~result.check.success /\ clause.defined)
               /\ DrawsMade = MainDice + (IF salvage.attempted THEN 1 ELSE 0)
               /\ salvage.attempted
                    => /\ salvage.raw \in 1..20
                       /\ salvage.total = salvage.raw + call.ctx.modifier
                       /\ salvage.dc = clause.dc
                       /\ salvage.success <=> (salvage.total >= clause.dc)
               /\ ~salvage.attempted => ~salvage.success
               /\ result.salvageProduced
                    = (IF salvaged THEN mergeDelta(EmptyRecord, clause.produce)
                       ELSE EmptyRecord)
               /\ \A resource \in DOMAIN heap[result.inventory] :
                     heap[result.inventory][resource]
                        = Get(inv, resource) - Get(result.consumed, resource)
                            + Get(result.produced, resource)
                            + (IF salvaged THEN Get(clause.produce, resource) ELSE 0)

\* a failed main check rolled with advantage, then salvaged on a single die
C23_Witness ==
    /\ FeasibleAttempt
    /\ call.ctx.mode = "adv"
    /\ ~ret.result.check.success
    /\ ret.result.salvage.attempted
    /\ ret.result.salvage.success
    /\ DrawsMade = 3
    /\ ret.result.salvageProduced # EmptyRecord

\* the change from one inventory to another is the recorded delta, resource
\* by resource (0 for a resource the delta does not name)
ChangeIs(from, to, delta) ==
    \A resource \in DOMAIN from \cup DOMAIN to \cup DOMAIN delta :
        Get(to, resource) - Get(from, resource) = Get(delta, resource)

\* C24: the recorded delta is the actual inventory change: for every feasible
\* attempt and every resource, result.inventory minus the input inventory is
\* delta (0 when absent); for every batch, finalInventory minus the initial
\* inventory is summary.delta.
C24_DeltaIsInventoryChange ==
    /\ FeasibleAttempt
         => ChangeIs(inv, heap[ret.result.inventory], ret.result.delta)
    /\ BatchReturned
         => /\ ChangeIs(inv, heap[ret.batch.finalInventory],
                        ret.batch.summary.delta)
            /\ \A i \in 1..Len(ret.batch.attempts) :
                  ChangeIs(BatchInput(i),
                           heap[ret.batch.attempts[i].inventory],
                           ret.batch.attempts[i].delta)

\* a batch of two attempts that consumed one resource and produced another
C24_Witness ==
    /\ BatchReturned
    /\ Len(ret.batch.attempts) = 2
    /\ \E made \in DOMAIN ret.batch.summary.delta :
          ret.batch.summary.delta[made] > 0
    /\ \E used \in DOMAIN ret.batch.summary.delta :
          /\ ret.batch.summary.delta[used] < 0
          /\ Get(heap[ret.batch.finalInventory], used)
                = Get(inv, used) + ret.batch.summary.delta[used]

\* the base DC and the base consumption of the pending call against an inventory
BaseDc(inventory) ==
    resolveDcAndTime(CallAction, resolveRisk(CallAction, CallRisk), inventory).baseDc

BaseConsume(inventory) ==
    ActionIo(CallAction, resolveRisk(CallAction, CallRisk), inventory).consume

\* C25: for an action with a DC-reduction rule and extraCatalyst = e > 0,
\* every feasible attempt consumes the base amount plus all e units of the
\* catalyst resource, also the units beyond those that reach the minimum, and
\* its main check meets max(minDC, baseDC - perUnit * e); for an action
\* without a DC-reduction rule, extraCatalyst changes neither the consumption
\* nor the DC.
C25_ExtraCatalystSpentInFull ==
    FeasibleAttempt
        => LET result == ret.result
               rule == CallAction.dcReduction
               base == BaseConsume(inv)
           IN  /\ (rule.defined /\ CallExtra > 0)
                    => /\ Get(result.consumed, rule.resource)
                            = Get(base, rule.resource) + CallExtra
                       /\ \A resource \in DOMAIN base \ {rule.resource} :
                             Get(result.consumed, resource) = base[resource]
                       /\ Get(heap[result.inventory], rule.resource)
                            = Get(inv, rule.resource)
                                - (Get(base, rule.resource) + CallExtra)
                                + Get(result.produced, rule.resource)
                                + Get(result.salvageProduced, rule.resource)
                       /\ result.check.dc
                            = Max(rule.minDC, BaseDc(inv) - rule.perUnit * CallExtra)
               /\ ~rule.defined
                    => /\ result.consumed = base
                       /\ result.check.dc = BaseDc(inv)

\* an attempt whose last unit of extra catalyst could not lower the DC any
\* further, and was spent all the same
C25_Witness ==
    /\ FeasibleAttempt
    /\ CallAction.dcReduction.defined
    /\ CallExtra > 1
    /\ BaseDc(inv) - CallAction.dcReduction.perUnit * (CallExtra - 1)
          <= CallAction.dcReduction.minDC
    /\ ret.result.check.dc = CallAction.dcReduction.minDC
    /\ Get(heap[ret.result.inventory], CallAction.dcReduction.resource)
          = Get(inv, CallAction.dcReduction.resource) - CallExtra

(***************************************************************************)
(* TierPanel.tsx: the risk the panel of an action starts with.             *)
(***************************************************************************)
\* family.defaults?.risks, in order; empty for a family without defaults
FamilyDefaultRisks(id) ==
    IF id = "natural" THEN <<"standard">>
    ELSE IF id = "arcane-sample" THEN <<"standard", "risky">>
    ELSE << >>

\* the defaultRisk memo of TierPanel, for a panel that is given its settings:
\* family.defaults.risks.find((entry) => risks.includes(entry)) ?? risks[0]
defaultRisk(id, action) ==
    IF ~action.hasRisks THEN Undefined
    ELSE LET defaults == FamilyDefaultRisks(id)
             preferred == {i \in 1..Len(defaults) :
                              RiskIndex(action, defaults[i]) # {}}
         IN  IF preferred # {}
             THEN defaults[CHOOSE i \in preferred : \A j \in preferred : i <= j]
             ELSE IF Len(action.risks) > 0 THEN action.risks[1].risk
             ELSE Undefined

\* C26: when the action defines risk variants and the requested risk is not
\* one of them, or none is requested, the engine resolves the attempt with
\* the first risk of the family's default ordering that the action supports,
\* and with the action's first defined risk only when the action supports
\* none of the family's default risks: the attempt reports the time of that
\* risk and, when feasible, meets its DC and consumes what it consumes.
C26_FallsBackToFamilyDefault ==
    (Attempted /\ ~ret.threw /\ CallAction.hasRisks
        /\ ~HasRiskEntry(CallAction, CallRisk))
        => LET risk == defaultRisk(family, CallAction)
               resolved == resolveDcAndTime(CallAction, risk, inv)
           IN  /\ ret.result.timeMinutes = resolved.timeMinutes
               /\ ret.result.feasible
                    => /\ ret.result.check.dc
                            = applyReduction(CallAction, resolved.baseDc, CallExtra)
                       /\ ret.result.consumed
                            = withExtraCatalystConsumption(
                                  CallAction,
                                  ActionIo(CallAction, risk, inv).consume,
                                  CallExtra)

\* the I/O rule of the pending call consumes the same whatever the family's
\* inventory, and produces no negative amount
FixedConsumption ==
    LET risk == resolveRisk(CallAction, CallRisk)
    IN  \A inventory \in StartInventories(family) :
            /\ ActionIo(CallAction, risk, inventory).consume
                  = ActionIo(CallAction, risk, inv).consume
            /\ \A resource \in DOMAIN ActionIo(CallAction, risk, inventory).produceOnSuccess :
                  ActionIo(CallAction, risk, inventory).produceOnSuccess[resource] >= 0
            /\ \A resource \in DOMAIN ActionIo(CallAction, risk, inventory).salvage.produce :
                  ActionIo(CallAction, risk, inventory).salvage.produce[resource] >= 0

\* C27: maxFeasibleAttempts counts on the current inventory only and never
\* promises too much: for an action whose consumption does not depend on the
\* inventory and whose produce is non-negative, a batch of N attempts
\* completes at least min(N, M) attempts whatever the rolls, M being
\* maxFeasibleAttempts on the initial inventory with the same risk and
\* extraCatalyst, and completes none when M = 0.
C27_CountIsConservative ==
    (BatchReturned /\ FixedConsumption)
        => /\ BatchK.infinite => Len(ret.batch.attempts) = call.attempts
           /\ ~BatchK.infinite
                => /\ Len(ret.batch.attempts) >= Min(call.attempts, BatchK.value)
                   /\ BatchK.value = 0 => ret.batch.attempts = << >>

\* a batch that completed more attempts than the count on its initial
\* inventory, on what a salvage roll gave back
C27_Witness ==
    /\ BatchReturned
    /\ FixedConsumption
    /\ BatchK = [infinite |-> FALSE, value |-> 1]
    /\ call.attempts = 2
    /\ Len(ret.batch.attempts) = 2
    /\ ret.batch.attempts[1].salvage.success

(***************************************************************************)
(* rollWithMode applied to random sources whose values lie in and out of   *)
(* [0, 1).                                                                 *)
(***************************************************************************)
\* numerators of the values a source returns: below 0, the ends and the
\* middle of [0, 1), 1 and beyond
DrawValues ==
    {0 - RandDen, 0 - 1, 0, RollFor(11), RandDen - 1, RandDen, 3 * RandDen}

RollProbes ==
    {[fn |-> "rollWithMode", mode |-> mode, first |-> first, second |-> second] :
        mode \in Modes, first \in DrawValues, second \in DrawValues}

\* a source that returns the two values of the probe, in order
ProbeStreams(p) ==
    [random |-> <<p.first, p.second>>, salvageRandom |-> NotSupplied,
     platform |-> <<MidRoll>>, manual |-> FALSE]

InitRoll ==
    /\ family = "natural"
    /\ inv = EmptyRecord
    /\ call = NoCall
    /\ ret = NoRet
    /\ heap = <<inv>>
    /\ probe \in RollProbes
    /\ answer = NoAnswer
    /\ store = NoStore
    /\ app = NoApp

RollWithModeCall ==
    /\ probe.fn = "rollWithMode"
    /\ answer = NoAnswer
    /\ answer' = [returned |-> TRUE,
                  roll |-> rollWithMode(probe.mode, ProbeStreams(probe),
                                        NoDraws, "random")]
    /\ UNCHANGED <<engineVars, probe, storeVars>>

NextRoll == RollWithModeCall

SpecRoll == InitRoll /\ [][NextRoll]_vars

RollReturned == probe.fn = "rollWithMode" /\ answer.returned

\* the face of a d20 a drawn value stands for, the values outside [0, 1)
\* taken to the nearest face
Face(value) ==
    IF value < 0 THEN 1
    ELSE IF value >= RandDen THEN 20
    ELSE ((value * 20) \div RandDen) + 1

Agree(previewed, attempted, inventory) ==
    /\ previewed.threw <=> attempted.threw
    /\ ~previewed.threw
         => LET preview == previewed.preview
                result == attempted.result
            IN  /\ result.feasible <=> isFeasible(inventory, preview.consumption)
                /\ preview.timeMinutes = result.timeMinutes
                /\ result.feasible
                     => /\ preview.dc = result.check.dc
                        /\ preview.consumption = result.consumed

\* C29: previewAction agrees with simulateAttempt: for the same action,
\* inventory, risk and extraCatalyst, the preview's dc, consumption and
\* timeMinutes are the check.dc, consumed and timeMinutes of a feasible
\* attempt, and the preview's consumption is the record the attempt tests for
\* feasibility; previewAction draws no roll and changes no inventory.
C29_PreviewAgreesWithAttempt ==
    /\ Attempted
         => Agree(previewAction(<<inv>>, CallAction, CallerRef, CallRisk, CallExtra),
                  ret, inv)
    /\ Previewed
         => /\ heap = <<inv>>
            /\ "rng" \notin DOMAIN ret
            /\ \A modifier \in Modifiers, mode \in Modes, streams \in Streams :
                  Agree(ret,
                        simulateAttempt(<<inv>>,
                                        Context(CallAction, CallRisk, CallExtra,
                                                modifier, mode, streams),
                                        NoDraws),
                        inv)

\* a preview with extra catalyst that showed the lowered DC and the whole
\* consumption of an attempt the inventory affords
C29_Witness ==
    /\ Previewed
    /\ ~ret.threw
    /\ CallExtra > 0
    /\ CallAction.dcReduction.defined
    /\ ret.preview.dc < BaseDc(inv)
    /\ Get(ret.preview.consumption, CallAction.dcReduction.resource) >= CallExtra
    /\ isFeasible(inv, ret.preview.consumption)
    /\ heap = <<inv>>

(***************************************************************************)
(* Crafting in the Natural family until nothing can be attempted: a caller *)
(* that keeps attempting whatever the inventory affords and adopts every   *)
(* result, as the batch loop and the store do.                             *)
(***************************************************************************)
MaxStock == 3       \* largest starting amount of a resource
SureModifier == 20  \* a modifier with which most checks succeed on any roll

\* the resources an attempt of the family consumes
NaturalConsumables == {"raw", "fine", "fused", "superior", "rawAE"}

CraftInventories ==
    {Dense("natural", stock) : stock \in [NaturalConsumables -> 0..MaxStock]}

\* the outcomes of the rolls: a main check that succeeds, one that fails with
\* a salvage roll that succeeds, and one that fails with a salvage roll that
\* fails
CraftRolls ==
    {[modifier |-> SureModifier, random |-> <<HighRoll>>, salvageRandom |-> <<HighRoll>>],
     [modifier |-> 0, random |-> <<LowRoll>>, salvageRandom |-> <<HighRoll>>],
     [modifier |-> 0, random |-> <<LowRoll>>, salvageRandom |-> <<LowRoll>>]}

CraftContext(action, risk, extraCatalyst, rolls) ==
    Context(action, risk, extraCatalyst, rolls.modifier, "normal",
            [random |-> rolls.random, salvageRandom |-> rolls.salvageRandom,
             manual |-> FALSE, platform |-> <<MidRoll>>])

InitCraft ==
    /\ family = "natural"
    /\ inv \in CraftInventories
    /\ call = NoCall
    /\ ret = NoRet
    /\ heap = <<inv>>
    /\ probe = NoProbe
    /\ answer = NoAnswer
    /\ store = NoStore
    /\ app = NoApp

\* the risks of an action's risk table
SupportedRisks(action) ==
    {action.risks[k].risk : k \in 1..Len(action.risks)}

\* the extra catalyst a caller can offer: the panel of an action without a
\* reduction rule has no input for it
CraftExtras(action) ==
    IF action.dcReduction.defined THEN ExtraCatalysts ELSE {0}

\* the caller asks for an attempt the inventory affords
CraftCall ==
    /\ call = NoCall
    /\ \E i \in 1..Len(naturalActions), rolls \in CraftRolls :
       \E risk \in SupportedRisks(naturalActions[i]),
          extraCatalyst \in CraftExtras(naturalActions[i]) :
        /\ ~Short(naturalActions[i], risk, extraCatalyst, inv)
        /\ call' = [op |-> "simulateAttempt",
                    ctx |-> CraftContext(naturalActions[i], risk,
                                         extraCatalyst, rolls)]
    /\ UNCHANGED <<family, inv, ret, heap, mathVars, storeVars>>

\* the attempt is simulated and the caller adopts the inventory it returns,
\* and holds no other
Crafted(r) ==
    /\ ~r.threw
    /\ r.result.feasible
    /\ inv' = r.heap[r.result.inventory]

CraftAttempt ==
    /\ call # NoCall
    /\ Crafted(simulateAttempt(<<inv>>, call.ctx, NoDraws))
    /\ heap' = <<inv'>>
    /\ call' = NoCall
    /\ UNCHANGED <<family, ret, mathVars, storeVars>>

NextCraft ==
    \/ CraftCall
    \/ CraftAttempt

\* The caller goes on as long as an attempt is feasible, and an attempt it
\* asked for returns.  The second condition is WF_vars(CraftAttempt) with
\* ENABLED <<CraftAttempt>>_vars written as the state predicate it amounts
\* to: an attempt is pending.
SpecCraft ==
    /\ InitCraft
    /\ [][NextCraft]_vars
    /\ WF_vars(CraftCall)
    /\ ([]<>(call = NoCall) \/ []<><<CraftAttempt>>_vars)

\* no Natural action can be attempted on the inventory, at any risk, with any
\* extra catalyst
Exhausted ==
    \A i \in 1..Len(naturalActions) :
       \A risk \in SupportedRisks(naturalActions[i]),
          extraCatalyst \in CraftExtras(naturalActions[i]) :
        Short(naturalActions[i], risk, extraCatalyst, inv)

\* a measure of what an inventory can still be crafted into
Weight(inventory) ==
    2 * Get(inventory, "raw") + Get(inventory, "fine")
        + 2 * Get(inventory, "fused") + Get(inventory, "superior")
        + Get(inventory, "rawAE")

\* C30: crafting in the Natural family always runs out: from any inventory of
\* non-negative integers, every sequence of feasible attempts (any action,
\* risk, extra catalyst and roll outcome, also every salvage succeeding) is
\* finite: each attempt lowers the weight of the inventory, so their number
\* is at most the weight of the initial inventory, and the caller that keeps
\* attempting ends on an inventory on which no attempt is feasible.
C30_CraftingRunsOut ==
    /\ [][CraftAttempt => Weight(inv') < Weight(inv)]_vars
    /\ <>[](Exhausted /\ call = NoCall)

\* an inventory on which nothing can be attempted any more, holding more
\* fine essence than any initial inventory: what salvage rolls gave back
C30_Witness ==
    /\ call = NoCall
    /\ Exhausted
    /\ Get(inv, "fine") > MaxStock
    /\ Get(inv, "rawAE") > 0

====
